---- MODULE Spec2Model ----
(***************************************************************************)
(* Model of the sync orchestration core of ng-drive:                       *)
(*   - the delta sync engine (delta.DeltaService, delta.Watcher,           *)
(*     delta.DeltaStore and rclone.Sync), and                              *)
(*   - the secure state vault (services.AuthService), and                  *)
(*   - the task engine's progress pipeline (utils.startProgress) and its   *)
(*     temporary crypt remotes (rclone.ApplyCryptWrapping).                *)
(* Time is a single clock `now` counted in whole seconds, the resolution   *)
(* of the RFC3339 timestamps the program persists.                         *)
(***************************************************************************)
EXTENDS Integers, Sequences, FiniteSets, TLC

\* ------------------------------------------------------------------ bounds
MaxTasks == 1          \* concurrent Sync calls
MaxSyncs == 2          \* Sync calls started in one behaviour
MaxEvents == 2         \* ChangeNotify callbacks in one behaviour
MaxDeltaTicks == 2     \* clock advances in the delta specification
InitHighCount == 49    \* delta_count persisted by an earlier session
BulkBase == 4998       \* changes buffered before a behaviour of SpecBulk
MaxCallers == 2        \* concurrent Unlock calls
MaxSalts == 2          \* salts drawn by SetupPassword / ChangePassword
MaxVaultTicks == 3     \* clock advances in the vault specifications
MaxSamplerTicks == 2   \* ticker fires the sampler consumes
MaxLogLines == 1       \* log lines written during one task
ChanCap == 1           \* capacity of the caller's progress channel
MaxWraps == 2          \* ApplyCryptWrapping calls in one behaviour
MaxUuids == 2          \* distinct 8-character uuid prefixes drawn
MaxObjs == 3           \* Watcher objects made in one behaviour
MaxChans == 3          \* poll channels made in one behaviour
MaxDrainers == 2       \* goroutines draining one watcher
MaxBufEvents == 2      \* callbacks on that watcher
MaxDrains == 3         \* DrainChanges calls on that watcher
MaxScopeChanges == 2   \* changes buffered before a scoped sync

\* --------------------------------------------------------------- constants
MaxDeltaSyncsBeforeFullSync == 50
MaxTimeBetweenFullSyncs == 86400       \* 24 * time.Hour, in seconds
MaxChangesBeforeFallback == 5000
DeltaTickStep == 86400                 \* the delta clock advances by 24 h

VaultTickStep == 150                   \* the vault clock advances by 150 s

\* Rate limit constants of the vault.
maxAttemptsBeforeDelay == 3
maxAttemptsBeforeLock == 10
lockoutDuration == 300                 \* 5 * time.Minute, in seconds
MinPasswordLen == 4

\* Constants of the progress pipeline.
maxLogMessagesPerStatus == 50

Null == 0 - 1                          \* SQL NULL / nil *time.Time

\* Remote keys as produced by remoteKey(): "a" and "b" are remotes whose
\* filesystem offers ChangeNotify, "c" is one that does not.
Keys == {"a", "b", "c"}
NotifyKeys == {"a", "b"}
Paths == {"notes.md", "dir[x"}
DirPaths == {"dir[x"}                  \* paths reported as fs.EntryDirectory
BadGlobPaths == {"dir[x"}              \* paths filter.NewFilter rejects
Tasks == 1..MaxTasks

\* Files the transfer of one task goes through: "f1" is found unchanged
\* (it is only checked), "f2" is transferred.
Names == {"f1", "f2"}
UnchangedNames == {"f1"}

\* Passwords a caller may type, with their lengths.
\* "UUU" stands for a password of three two-byte UTF-8 characters.
Passwords == {"abc", "pass", "UUU"}
\* len(password): the number of bytes of the string.
PasswordLen(p) == IF p = "abc" THEN 3 ELSE IF p = "pass" THEN 4 ELSE 6
\* The number of characters of the password.
PasswordChars(p) == IF p = "pass" THEN 4 ELSE 3
\* The two sensitive files, in the order the vault walks them.
Files == <<"rclone.conf", "ng-drive.db">>
FileSet == {"rclone.conf", "ng-drive.db"}
Callers == 1..MaxCallers

VARIABLES
    now,              \* wall clock, seconds
    watchers,         \* DeltaService.watchers: key -> Watcher
    svcCtxCancelled,  \* DeltaService.ctx has been cancelled
    rows,             \* table delta_state: key -> DeltaState
    task,             \* one record per Sync call slot; seq numbers the calls,
                      \* offered holds the samples Sync itself offers
    syncCount,        \* Sync calls started so far
    fullSynced,       \* <<source, destination>> of the full syncs that have
                      \* succeeded
    eventCount,       \* ChangeNotify callbacks delivered so far
    live,             \* key -> ChangeNotify subscriptions started and not
                      \* stopped, whether or not the map still holds them
    up,               \* the AuthService process is running
    authData,         \* AuthService.authData (in memory)
    authFile,         \* auth.json on disk
    unlocked,         \* AuthService.unlocked
    encKey,           \* AuthService.encKey
    disk,             \* the sensitive files, their .enc forms, the sidecars
    dbOpen,           \* the shared database connection is open
    lastEvent,        \* the last auth event emitted
    ucall,            \* one record per Unlock call slot
    ret,              \* operation and error of the last call that returned
    saltCount,        \* salts drawn so far
    repaired,         \* files the crash recovery of this process found in
                      \* both forms
    unzeroed,         \* keys AuthService.encKey held and dropped with their
                      \* bytes intact
    initialized,      \* App.initialized: the rclone config has been loaded
    wrongRun          \* wrong passwords verified since the last right one

deltaVars == <<watchers, svcCtxCancelled, rows, task, syncCount, fullSynced,
               eventCount,
               live>>
vaultVars == <<up, authData, authFile, unlocked, encKey, disk, dbOpen,
               lastEvent, ucall, ret, saltCount, repaired, unzeroed,
               initialized, wrongRun>>

VARIABLES
    isClosed,         \* startProgress: the atomic flag isClosed
    sinks,            \* the log sink and the SyncPrintf hook are installed
    logger,           \* a log callback that has passed its isClosed test
                      \* and not yet appended its line ("" for none)
    logCount,         \* log lines written so far
    logAccum,         \* lines accumulated since the last drain
    stopCh,           \* stopCh has been closed
    sampler,          \* the sampler goroutine: its position, the sample it
                      \* built, prevChecking and completedChecks
    ticks,            \* ticker fires consumed so far
    cleanupPc,        \* steps of the cleanup function done so far (0: not
                      \* called, 5: returned)
    outStatus,        \* the samples buffered in the progress channel
    chClosed,         \* the progress channel has been closed
    sent,             \* every sample the channel accepted, in order
    dropped,          \* samples built and not accepted by the channel
    stage             \* rclone accounting: what each file is going through

progressVars == <<isClosed, sinks, logger, logCount, logAccum, stopCh,
                  sampler, ticks, cleanupPc, outStatus, chClosed, sent,
                  dropped, stage>>

VARIABLES
    rcloneConfig,     \* the remotes of the rclone config, each with the
                      \* ApplyCryptWrapping call that created it (0: none)
    wrap,             \* the last ApplyCryptWrapping call: what it returned,
                      \* the profile it was given, the list its cleanup holds
    wrapCount         \* ApplyCryptWrapping calls made so far

cryptVars == <<rcloneConfig, wrap, wrapCount>>

\* Watcher.Start and Watcher.Stop step by step (delta/watcher.go), with the
\* service's mutex around EnsureWatcher and StopAll (delta/service.go).
VARIABLES
    objs,             \* Watcher objects: running, pollCh (0 is nil), cancel
    chans,            \* poll channels: made, closed, number of buffered values
    callers,          \* Start calls in flight: pc, object, copied channel
    dmu,              \* holder of DeltaService.mu
    wmap              \* d.watchers[key]: a Watcher object, 0 for no entry

startVars == <<objs, chans, callers, dmu, wmap>>

\* One watcher's buffer used by several goroutines (delta/watcher.go).
VARIABLES
    bw,               \* the watcher
    held,             \* per goroutine: the slice DrainChanges returned to it
    recorded,         \* changes recorded by notifyCallback so far
    consumed,         \* ids of the drained changes that were used
    hasRet,           \* what the last HasChanges call returned
    drainCount        \* DrainChanges calls made so far

bufVars == <<bw, held, recorded, consumed, hasRet, drainCount>>

\* The filter of a scoped sync (rclone/sync.go).
VARIABLES
    fopt,             \* the profile's filter options: include, exclude rules
    fchanges,         \* the changes the source watcher has buffered
    scope             \* the filter the transfer runs under

filterVars == <<fopt, fchanges, scope>>
taskVars == <<progressVars, cryptVars, startVars, bufVars, filterVars>>
notProgressVars == <<deltaVars, vaultVars, cryptVars, startVars, bufVars,
                     filterVars>>
notCryptVars == <<now, deltaVars, vaultVars, progressVars, startVars, bufVars,
                  filterVars>>
notStartVars == <<now, deltaVars, vaultVars, progressVars, cryptVars, bufVars,
                  filterVars>>
notBufVars == <<now, deltaVars, vaultVars, progressVars, cryptVars, startVars,
                filterVars>>
notFilterVars == <<now, deltaVars, vaultVars, progressVars, cryptVars,
                   startVars, bufVars>>
vars == <<now, deltaVars, vaultVars, taskVars>>

\* ------------------------------------------------------------------ types
NoWatcher == [exists |-> FALSE, running |-> FALSE, changes |-> <<>>,
              ctxCancelled |-> FALSE, pollCh |-> "nil"]
NoRow == [exists |-> FALSE, provider |-> "", isWatching |-> FALSE,
          lastFullSync |-> Null, deltaCount |-> 0]
IdleTask == [pc |-> "idle", seq |-> 0, src |-> "a", dst |-> "a",
             deltaSvc |-> FALSE, usedDelta |-> FALSE, drained |-> <<>>,
             srcChanges |-> <<>>, offered |-> <<>>, result |-> "none"]

\* ------------------------------------------------------- delta/service.go
HasChangeNotify(k) == k \in NotifyKeys

\* getProviderType naming a provider for every filesystem.
getProviderType_Always(k) == "drive"

getProviderType(k) == IF HasChangeNotify(k) THEN "drive" ELSE "none"

\* ------------------------------------------------------- delta/watcher.go
NewWatcher == NoWatcher

IsRunning(w) == w.running

HasChanges(w) == Len(w.changes) > 0

\* Start: the watcher context is derived from parentCtx, so it is born
\* cancelled when the parent already is.
Start(w, k, parentCancelled) ==
    IF w.running THEN w
    ELSE IF ~HasChangeNotify(k) THEN w
    ELSE [exists |-> TRUE, running |-> TRUE, changes |-> <<>>,
          ctxCancelled |-> parentCancelled, pollCh |-> "open"]

Stop(w) ==
    IF ~w.running THEN w
    ELSE [w EXCEPT !.running = FALSE, !.pollCh = "nil", !.ctxCancelled = TRUE]

DrainChanges(w) == [w EXCEPT !.changes = <<>>]

\* Variant of RestoreChanges that appends instead of prepending.
WatcherRestoreChanges_Append(w, changes) ==
    IF Len(changes) = 0 THEN w
    ELSE [w EXCEPT !.changes = w.changes \o changes]

WatcherRestoreChanges(w, changes) ==
    IF Len(changes) = 0 THEN w
    ELSE [w EXCEPT !.changes = changes \o w.changes]

\* --------------------------------------------------------- delta/store.go
GetState(k) == rows[k]

RecordFullSync(rs, k, provider, isWatching) ==
    [rs EXCEPT ![k] = [exists |-> TRUE, provider |-> provider,
                       isWatching |-> isWatching, lastFullSync |-> now,
                       deltaCount |-> 0]]

\* IncrementDeltaCount adding 2.
IncrementDeltaCount_ByTwo(rs, k) ==
    IF rs[k].exists
    THEN [rs EXCEPT ![k].deltaCount = rs[k].deltaCount + 2]
    ELSE rs

IncrementDeltaCount(rs, k) ==
    IF rs[k].exists
    THEN [rs EXCEPT ![k].deltaCount = rs[k].deltaCount + 1]
    ELSE rs

SetWatching(rs, k, watching) ==
    IF rs[k].exists THEN [rs EXCEPT ![k].isWatching = watching] ELSE rs

\* ------------------------------------------------------- delta/service.go
\* The service state handed through the methods: d = [watchers, rows, live].
Svc == [watchers |-> watchers, rows |-> rows, live |-> live]

\* EnsureWatcher without the test for a running watcher.
EnsureWatcher_NoRunningTest(d, k) ==
    IF getProviderType(k) = "none" THEN d
    ELSE [watchers |-> [d.watchers EXCEPT
                          ![k] = Start(NewWatcher, k, svcCtxCancelled)],
          rows |-> SetWatching(d.rows, k, TRUE),
          live |-> [d.live EXCEPT ![k] = @ + 1]]

EnsureWatcher(d, k) ==
    IF getProviderType(k) = "none" THEN d
    ELSE IF d.watchers[k].exists /\ IsRunning(d.watchers[k]) THEN d
    ELSE [watchers |-> [d.watchers EXCEPT
                          ![k] = Start(NewWatcher, k, svcCtxCancelled)],
          rows |-> SetWatching(d.rows, k, TRUE),
          live |-> [d.live EXCEPT ![k] = @ + 1]]

\* Variant of ShouldSkipSync without the consecutive-delta cap.
ShouldSkipSync_NoCountCap(k) ==
    LET w == watchers[k]
        state == GetState(k)
    IN  IF ~w.exists \/ ~IsRunning(w) THEN FALSE
        ELSE IF ~state.exists THEN FALSE
        ELSE IF state.lastFullSync # Null
                /\ now - state.lastFullSync > MaxTimeBetweenFullSyncs
             THEN FALSE
        ELSE ~HasChanges(w)

ShouldSkipSync(k) ==
    LET w == watchers[k]
        state == GetState(k)
    IN  IF ~w.exists \/ ~IsRunning(w) THEN FALSE
        ELSE IF ~state.exists THEN FALSE
        ELSE IF state.deltaCount >= MaxDeltaSyncsBeforeFullSync THEN FALSE
        ELSE IF state.lastFullSync # Null
                /\ now - state.lastFullSync > MaxTimeBetweenFullSyncs
             THEN FALSE
        ELSE ~HasChanges(w)

\* GetChanges: [isNil, changes, hasChanges] and the watcher after the drain.
GetChanges(k) ==
    LET w == watchers[k]
    IN  IF ~w.exists \/ ~IsRunning(w)
        THEN [isNil |-> TRUE, changes |-> <<>>, hasChanges |-> FALSE, w |-> w]
        ELSE [isNil |-> FALSE, changes |-> w.changes,
              hasChanges |-> Len(w.changes) # 0, w |-> DrainChanges(w)]

RestoreChanges(d, k, changes) ==
    LET w == d.watchers[k]
    IN  IF ~w.exists \/ ~IsRunning(w) THEN d
        ELSE [d EXCEPT !.watchers[k] = WatcherRestoreChanges(w, changes)]

CommitDelta(d, k) == [d EXCEPT !.rows = IncrementDeltaCount(d.rows, k)]

CommitFullSync(d, k) ==
    LET provider == getProviderType(k)
        d1 == IF provider # "none" THEN EnsureWatcher(d, k) ELSE d
        isWatching == provider # "none"
    IN  [d1 EXCEPT !.rows = RecordFullSync(d1.rows, k, provider, isWatching)]

\* StopAll leaving the delta_state rows as they are.
stopAll_KeepRows(d) ==
    [watchers |-> [k \in Keys |-> NoWatcher],
     rows |-> d.rows,
     live |-> [k \in Keys |->
                 IF d.watchers[k].exists
                    /\ Stop(d.watchers[k]) # d.watchers[k]
                 THEN d.live[k] - 1 ELSE d.live[k]]]

\* StopAll on the service state: every watcher of the map is stopped and
\* its row updated, then the map is replaced by an empty one. A Stop that
\* finds its watcher running closes the poll channel (one subscription
\* less).
stopAll(d) ==
    [watchers |-> [k \in Keys |-> NoWatcher],
     rows |-> [k \in Keys |->
                 IF d.watchers[k].exists
                 THEN SetWatching(d.rows, k, FALSE)[k]
                 ELSE d.rows[k]],
     live |-> [k \in Keys |->
                 IF d.watchers[k].exists
                    /\ Stop(d.watchers[k]) # d.watchers[k]
                 THEN d.live[k] - 1 ELSE d.live[k]]]

\* ------------------------------------------------------- rclone/sync.go
\* applyScopeFilter returns a new context unless filter.NewFilter fails.
applyScopeFilter(changes) ==
    \A i \in 1..Len(changes) : changes[i].path \notin BadGlobPaths

\* sendSkippedStatus: one non-blocking send on the progress channel.
sendSkippedStatus(out) ==
    Append(out, [status |-> "completed", progress |-> 100,
                 deltaMode |-> TRUE, deltaSkipped |-> TRUE])

\* The test Sync makes on the drained change set before it builds the scope
\* filter, with the fallback threshold included in the scoped range.
canScope_Inclusive(got) ==
    /\ ~got.isNil /\ got.hasChanges
    /\ Len(got.changes) <= MaxChangesBeforeFallback

\* The test Sync makes on the drained change set before it builds the scope
\* filter.
canScope(got) ==
    /\ ~got.isNil /\ got.hasChanges
    /\ Len(got.changes) < MaxChangesBeforeFallback

\* ---------------------------------------------------------------- actions
\* Watcher.notifyCallback, called by the backend's ChangeNotify loop, which
\* is alive only while the watcher context is not cancelled.
notifyCallback(k, path) ==
    /\ eventCount < MaxEvents
    /\ watchers[k].exists /\ watchers[k].running /\ ~watchers[k].ctxCancelled
    /\ watchers' = [watchers EXCEPT ![k].changes =
           Append(@, [id |-> eventCount + 1, path |-> path,
                      dir |-> path \in DirPaths])]
    /\ eventCount' = eventCount + 1
    /\ UNCHANGED <<now, svcCtxCancelled, rows, task, syncCount, fullSynced, live,
                   vaultVars, taskVars>>

\* DeltaService.EnsureWatcher called directly.
EnsureWatcherCall(k) ==
    LET d == EnsureWatcher(Svc, k)
    IN  /\ watchers' = d.watchers
        /\ rows' = d.rows
        /\ live' = d.live
        /\ UNCHANGED <<now, svcCtxCancelled, task, syncCount, fullSynced, eventCount,
                       vaultVars, taskVars>>

\* DeltaService.StopAll.
StopAll ==
    LET d == stopAll(Svc)
    IN  /\ watchers' = d.watchers
        /\ rows' = d.rows
        /\ live' = d.live
        /\ svcCtxCancelled' = TRUE
    /\ UNCHANGED <<now, task, syncCount, fullSynced, eventCount, vaultVars,
                   taskVars>>

\* Sync up to the transfer: set-up, the skip test and the scope filter.
SyncBegin(t, from, to, kind, withDelta, setupOk) ==
    LET src == IF kind = "pull" THEN to ELSE from
        dst == IF kind = "pull" THEN from ELSE to
        base == [IdleTask EXCEPT !.seq = syncCount + 1, !.src = src,
                                 !.dst = dst, !.deltaSvc = withDelta]
        got == GetChanges(src)
        scoped == canScope(got) /\ applyScopeFilter(got.changes)
    IN  /\ from # to
        /\ task[t].pc # "transfer"
        /\ syncCount < MaxSyncs
        /\ syncCount' = syncCount + 1
        /\ IF ~setupOk
           THEN /\ task' = [task EXCEPT ![t] =
                              [base EXCEPT !.pc = "done", !.result = "error"]]
                /\ UNCHANGED <<watchers, rows>>
           ELSE IF ~withDelta
           THEN /\ task' = [task EXCEPT ![t] = [base EXCEPT !.pc = "transfer"]]
                /\ UNCHANGED <<watchers, rows>>
           ELSE IF ShouldSkipSync(src) /\ ShouldSkipSync(dst)
           THEN /\ task' = [task EXCEPT ![t] =
                              [base EXCEPT !.pc = "done", !.result = "skipped",
                                  !.offered = sendSkippedStatus(@)]]
                /\ rows' = CommitDelta(CommitDelta(Svc, src), dst).rows
                /\ UNCHANGED watchers
           ELSE /\ task' = [task EXCEPT ![t] =
                              [base EXCEPT !.pc = "transfer",
                                  !.usedDelta = scoped,
                                  !.srcChanges = got.changes,
                                  !.drained = IF scoped THEN got.changes
                                              ELSE <<>>]]
                /\ watchers' = [watchers EXCEPT ![src] = got.w]
                /\ UNCHANGED rows
        /\ UNCHANGED <<now, svcCtxCancelled, fullSynced, eventCount, live,
                       vaultVars, taskVars>>

\* Sync from the return of the transfer to the return of Sync.
SyncEnd(t, ok) ==
    LET tk == task[t]
        d == Svc
        d1 == IF ~tk.deltaSvc THEN d
              ELSE IF ok
              THEN IF tk.usedDelta
                   THEN CommitDelta(CommitDelta(d, tk.src), tk.dst)
                   ELSE CommitFullSync(CommitFullSync(d, tk.src), tk.dst)
              ELSE IF tk.usedDelta /\ Len(tk.drained) > 0
              THEN RestoreChanges(d, tk.src, tk.drained)
              ELSE d
    IN  /\ tk.pc = "transfer"
        /\ task' = [task EXCEPT ![t].pc = "done",
                                ![t].result = IF ok THEN "ok" ELSE "failed"]
        /\ watchers' = d1.watchers
        /\ rows' = d1.rows
        /\ live' = d1.live
        /\ fullSynced' = IF ok /\ ~tk.usedDelta
                         THEN fullSynced \cup {<<tk.src, tk.dst>>}
                         ELSE fullSynced
        /\ UNCHANGED <<now, svcCtxCancelled, syncCount, eventCount, vaultVars,
                       taskVars>>

TickDelta ==
    /\ now < MaxDeltaTicks * DeltaTickStep
    /\ now' = now + DeltaTickStep
    /\ UNCHANGED <<deltaVars, vaultVars, taskVars>>


\* ========================================================== secure vault
\* ------------------------------------------------------------------ types
\* A key is Argon2id(password, salt); a hash encodes the salt and the digest
\* of the password under that salt.  Both are injective in (password, salt).
NoKey == [pw |-> "", salt |-> 0]
ZeroKey == [pw |-> "", salt |-> 0 - 1]    \* a key buffer holding zeros
TornKey == [pw |-> "", salt |-> 0 - 2]    \* of an .enc written in part
NoHash == [salt |-> 0, hash |-> ""]
NoAuthData == [enabled |-> FALSE, hash |-> NoHash, failedAttempts |-> 0,
               lockoutUntil |-> Null]
NoAuthFile == [exists |-> FALSE, data |-> NoAuthData]
IdleCall == [pc |-> "idle", pw |-> "", attempt |-> 0, delay |-> 0]
NoRet == [op |-> "none", err |-> "nil", remaining |-> 0]
FailAt == FileSet \cup {"none"}
DbFile == "ng-drive.db"

\* Which fallible steps of a call fail: salt generation, encryptFile on a
\* file, saveAuthData, decryptFile on a file, InitDatabase, the recovery
\* decryptFile on a file, the second (best-effort) saveAuthData.
NoFault == [salt |-> FALSE, enc |-> "none", save |-> FALSE, dec |-> "none",
            init |-> FALSE, cfg |-> FALSE, rdec |-> "none", save2 |-> FALSE]

RECURSIVE Pow2(_)
Pow2(n) == IF n <= 0 THEN 1 ELSE 2 * Pow2(n - 1)

\* --------------------------------------------------------- crypto functions
deriveKey(password, salt) == [pw |-> password, salt |-> salt]

encodePasswordHash(password, salt) == [salt |-> salt, hash |-> password]

extractSalt(encoded) == encoded.salt

verifyPasswordHash(password, encoded) ==
    /\ encoded # NoHash
    /\ encoded.hash = deriveKey(password, extractSalt(encoded)).pw

\* encryptFile writes <f>.enc under key; fail is an I/O error before the
\* write.  A nil key is rejected by aes.NewCipher.
encryptFile(dk, f, key, fail) ==
    IF fail \/ key = NoKey THEN [dk |-> dk, err |-> TRUE]
    ELSE [dk |-> [dk EXCEPT !.enc[f] = key], err |-> FALSE]

\* decryptFile authenticates <f>.enc against key and writes the plaintext.
decryptFile(dk, f, key, fail) ==
    IF fail \/ dk.enc[f] # key THEN [dk |-> dk, err |-> TRUE]
    ELSE [dk |-> [dk EXCEPT !.plain[f] = TRUE, !.torn = @ \ {f}],
          err |-> FALSE]

RECURSIVE encryptFrom(_, _, _, _)
encryptFrom(i, dk, key, failAt) ==
    IF i > Len(Files) THEN [dk |-> dk, err |-> FALSE]
    ELSE LET f == Files[i]
         IN  IF ~dk.plain[f] THEN encryptFrom(i + 1, dk, key, failAt)
             ELSE LET r == encryptFile(dk, f, key, failAt = f)
                  IN  IF r.err THEN r
                      ELSE encryptFrom(i + 1,
                               [r.dk EXCEPT !.plain[f] = FALSE,
                                   !.torn = @ \ {f},
                                   !.sidecars = IF f = DbFile THEN FALSE
                                                ELSE @],
                               key, failAt)

encryptConfigFiles(dk, key, failAt) == encryptFrom(1, dk, key, failAt)

RECURSIVE decryptFrom(_, _, _, _)
decryptFrom(i, dk, key, failAt) ==
    IF i > Len(Files) THEN [dk |-> dk, err |-> FALSE]
    ELSE LET f == Files[i]
         IN  IF dk.enc[f] = NoKey THEN decryptFrom(i + 1, dk, key, failAt)
             ELSE LET r == decryptFile(dk, f, key, failAt = f)
                  IN  IF r.err THEN r
                      ELSE decryptFrom(i + 1,
                               [r.dk EXCEPT !.enc[f] = NoKey], key, failAt)

decryptConfigFiles(dk, key, failAt) == decryptFrom(1, dk, key, failAt)

cleanupEncryptedFiles(dk) == [dk EXCEPT !.enc = [f \in FileSet |-> NoKey]]

\* recoverFromCrash keeping the plaintext whatever the auth state.
recoverFromCrash_KeepPlain(dk, ad) ==
    [dk EXCEPT !.enc = [f \in FileSet |->
                          IF dk.plain[f] THEN NoKey ELSE dk.enc[f]]]

recoverFromCrash(dk, ad) ==
    [plain |-> [f \in FileSet |->
                  IF dk.plain[f] /\ dk.enc[f] # NoKey /\ ad.enabled
                  THEN FALSE ELSE dk.plain[f]],
     enc |-> [f \in FileSet |->
                  IF dk.plain[f] /\ dk.enc[f] # NoKey /\ ~ad.enabled
                  THEN NoKey ELSE dk.enc[f]],
     sidecars |-> IF dk.plain[DbFile] /\ dk.enc[DbFile] # NoKey /\ ad.enabled
                  THEN FALSE ELSE dk.sidecars,
     torn |-> {f \in dk.torn :
                  ~(dk.plain[f] /\ dk.enc[f] # NoKey /\ ad.enabled)}]

\* A crash inside encryptConfigFiles while it works on file: the files
\* before it are done; os.WriteFile has written a part of <file>.enc
\* ("write"), all of it ("written"), or the plaintext is removed as well
\* and the sidecars are not yet ("removed").
CrashPoints == {"write", "written", "removed"}

encryptCrash(dk, key, file, pt) ==
    LET pre == encryptConfigFiles(dk, key, file).dk
    IN  IF pt = "write" THEN [pre EXCEPT !.enc[file] = TornKey]
        ELSE IF pt = "written" THEN [pre EXCEPT !.enc[file] = key]
        ELSE [pre EXCEPT !.enc[file] = key, !.plain[file] = FALSE,
                         !.torn = @ \ {file}]

\* A crash inside decryptConfigFiles while it works on file: os.WriteFile
\* has written a part of the plaintext ("write") or all of it ("written");
\* <file>.enc is not yet removed.
decryptCrash(dk, key, file, pt) ==
    LET pre == decryptConfigFiles(dk, key, file).dk
    IN  IF pt = "write"
        THEN [pre EXCEPT !.plain[file] = TRUE, !.torn = @ \cup {file}]
        ELSE [pre EXCEPT !.plain[file] = TRUE, !.torn = @ \ {file}]

\* ------------------------------------------------- vault state as a value
\* v = [ad, af, unlocked, encKey, disk, dbOpen, ev, unzeroed, repaired, err,
\* remaining]: the
\* fields of the service, the files, and the error the call returns.
Cur == [ad |-> authData, af |-> authFile, unlocked |-> unlocked,
        encKey |-> encKey, disk |-> disk, dbOpen |-> dbOpen,
        ev |-> lastEvent, unzeroed |-> unzeroed, repaired |-> repaired,
        initialized |-> initialized,
        err |-> "nil",
        remaining |-> 0]

Fail(v, e) == [v EXCEPT !.err = e]

\* zeroBytes(a.encKey): the buffer encKey refers to is overwritten.
zeroBytes(v) == [v EXCEPT !.encKey = IF @ = NoKey THEN NoKey ELSE ZeroKey]

\* a.encKey = key: the reference to the buffer held before is dropped.
setKey(v, key) ==
    [v EXCEPT !.encKey = key,
              !.unzeroed = IF v.encKey \in {NoKey, ZeroKey} THEN @
                           ELSE @ \cup {v.encKey}]

saveAuthData(v, fail) ==
    IF fail THEN v ELSE [v EXCEPT !.af = [exists |-> TRUE, data |-> v.ad]]

emitAuthEvent(v, e) == [v EXCEPT !.ev = e]

\* Opening the database creates the file and its -wal/-shm sidecars.
InitDatabase(v, fail) ==
    IF fail THEN Fail([v EXCEPT !.dbOpen = FALSE], "database")
    ELSE [v EXCEPT !.dbOpen = TRUE, !.disk.plain[DbFile] = TRUE,
                   !.disk.sidecars = TRUE]

CloseDatabase(v) == [v EXCEPT !.dbOpen = FALSE]

\* App.CompleteInitialization: the rclone config is loaded once per process.
CompleteInitialization(v, fail) ==
    IF v.initialized THEN v
    ELSE IF fail THEN Fail(v, "rclone config path")
    ELSE [v EXCEPT !.initialized = TRUE]

initializeApp(v, failDb, failCfg) ==
    LET v1 == InitDatabase(CloseDatabase(v), failDb)
    IN  IF v1.err # "nil" THEN v1 ELSE CompleteInitialization(v1, failCfg)

\* lockInternal without the encryption of the files.
lockInternal_NoEncrypt(v, failAt) ==
    IF ~v.unlocked \/ v.encKey = NoKey THEN v
    ELSE [setKey(zeroBytes(CloseDatabase(v)), NoKey) EXCEPT
             !.unlocked = FALSE]

lockInternal(v, failAt) ==
    IF ~v.unlocked \/ v.encKey = NoKey THEN v
    ELSE LET v1 == CloseDatabase(v)
             r == encryptConfigFiles(v1.disk, v1.encKey, failAt)
         IN  [setKey(zeroBytes(v1), NoKey) EXCEPT
                 !.disk = r.dk, !.unlocked = FALSE]

\* unlockVerify with the lockout starting one attempt early.
unlockVerify_EarlyLock(v, password, f) ==
    IF ~verifyPasswordHash(password, v.ad.hash)
    THEN LET n == v.ad.failedAttempts + 1
             ad1 == IF n >= maxAttemptsBeforeLock - 1
                    THEN [v.ad EXCEPT !.failedAttempts = 0,
                             !.lockoutUntil = now + lockoutDuration]
                    ELSE [v.ad EXCEPT !.failedAttempts = n]
         IN  Fail(saveAuthData([v EXCEPT !.ad = ad1], f.save),
                  "incorrect password")
    ELSE LET key == deriveKey(password, extractSalt(v.ad.hash))
             r == decryptConfigFiles(v.disk, key, f.dec)
             v1 == saveAuthData([v EXCEPT !.disk = r.dk,
                                    !.ad.failedAttempts = 0,
                                    !.ad.lockoutUntil = Null], f.save)
         IN  emitAuthEvent([initializeApp(v1, f.init, f.cfg) EXCEPT
                                !.encKey = key, !.unlocked = TRUE],
                           "auth:unlocked")

\* unlockVerify with a wrong password counted twice.
unlockVerify_CountTwice(v, password, f) ==
    IF ~verifyPasswordHash(password, v.ad.hash)
    THEN LET n == v.ad.failedAttempts + 2
             ad1 == IF n >= maxAttemptsBeforeLock
                    THEN [v.ad EXCEPT !.failedAttempts = 0,
                             !.lockoutUntil = now + lockoutDuration]
                    ELSE [v.ad EXCEPT !.failedAttempts = n]
         IN  Fail(saveAuthData([v EXCEPT !.ad = ad1], f.save),
                  "incorrect password")
    ELSE LET key == deriveKey(password, extractSalt(v.ad.hash))
             r == decryptConfigFiles(v.disk, key, f.dec)
             v1 == saveAuthData([v EXCEPT !.disk = r.dk,
                                    !.ad.failedAttempts = 0,
                                    !.ad.lockoutUntil = Null], f.save)
         IN  emitAuthEvent([initializeApp(v1, f.init, f.cfg) EXCEPT
                                !.encKey = key, !.unlocked = TRUE],
                           "auth:unlocked")

\* Unlock, from "Verify password" to its return.
unlockVerify(v, password, f) ==
    IF ~verifyPasswordHash(password, v.ad.hash)
    THEN LET n == v.ad.failedAttempts + 1
             ad1 == IF n >= maxAttemptsBeforeLock
                    THEN [v.ad EXCEPT !.failedAttempts = 0,
                             !.lockoutUntil = now + lockoutDuration]
                    ELSE [v.ad EXCEPT !.failedAttempts = n]
         IN  Fail(saveAuthData([v EXCEPT !.ad = ad1], f.save),
                  "incorrect password")
    ELSE LET key == deriveKey(password, extractSalt(v.ad.hash))
             r == decryptConfigFiles(v.disk, key, f.dec)
         IN  IF r.err
             THEN Fail([v EXCEPT !.disk = r.dk], "failed to decrypt files")
             ELSE LET v1 == saveAuthData(
                              [v EXCEPT !.disk = r.dk,
                                  !.ad.failedAttempts = 0,
                                  !.ad.lockoutUntil = Null], f.save)
                      v2 == initializeApp(v1, f.init, f.cfg)
                  IN  IF v2.err # "nil"
                      THEN Fail([v2 EXCEPT !.disk = encryptConfigFiles(
                                     v2.disk, key, f.enc).dk],
                                "failed to initialize app after unlock")
                      ELSE emitAuthEvent([setKey(v2, key) EXCEPT
                                             !.unlocked = TRUE],
                                         "auth:unlocked")

\* Unlock, from its entry to the rate-limit delay: the returned value has
\* sleep > 0 when the call releases the mutex to sleep.
unlockEnter(v, password, f) ==
    IF ~v.ad.enabled THEN [v |-> Fail(v, "auth not enabled"), sleep |-> 0]
    ELSE IF v.unlocked THEN [v |-> v, sleep |-> 0]
    ELSE IF v.ad.lockoutUntil # Null /\ now < v.ad.lockoutUntil
    THEN [v |-> [v EXCEPT !.err = "account locked",
                          !.remaining = v.ad.lockoutUntil - now],
          sleep |-> 0]
    ELSE LET v1 == [v EXCEPT !.ad.lockoutUntil = Null]
         IN  IF /\ v1.ad.failedAttempts >= maxAttemptsBeforeDelay
                /\ v1.ad.failedAttempts < maxAttemptsBeforeLock
             THEN [v |-> v1,
                   sleep |-> Pow2(v1.ad.failedAttempts
                                    - maxAttemptsBeforeDelay)]
             ELSE [v |-> unlockVerify(v1, password, f), sleep |-> 0]

\* setupPassword with the files encrypted at once.
setupPassword_EncryptNow(v, password, salt, f) ==
    IF v.ad.enabled THEN Fail(v, "password already configured")
    ELSE IF PasswordLen(password) < MinPasswordLen
    THEN Fail(v, "password too short")
    ELSE IF f.salt THEN Fail(v, "failed to generate salt")
    ELSE LET key == deriveKey(password, salt)
             hash == encodePasswordHash(password, salt)
             v1 == [v EXCEPT !.ad = [enabled |-> TRUE, hash |-> hash,
                                     failedAttempts |-> 0,
                                     lockoutUntil |-> Null],
                             !.disk = encryptConfigFiles(v.disk, key,
                                                         f.enc).dk]
         IN  IF f.save THEN Fail(v1, "failed to save auth data")
             ELSE setKey(saveAuthData(v1, FALSE), key)

setupPassword(v, password, salt, f) ==
    IF v.ad.enabled THEN Fail(v, "password already configured")
    ELSE IF PasswordLen(password) < MinPasswordLen
    THEN Fail(v, "password too short")
    ELSE IF f.salt THEN Fail(v, "failed to generate salt")
    ELSE LET key == deriveKey(password, salt)
             hash == encodePasswordHash(password, salt)
             v1 == [v EXCEPT !.ad = [enabled |-> TRUE, hash |-> hash,
                                     failedAttempts |-> 0,
                                     lockoutUntil |-> Null]]
         IN  IF f.save THEN Fail(v1, "failed to save auth data")
             ELSE setKey(saveAuthData(v1, FALSE), key)

\* markLocked without the overwrite of the key bytes.
markLocked_NoZero(v) ==
    emitAuthEvent([setKey(v, NoKey) EXCEPT !.unlocked = FALSE],
                  "auth:locked")

\* The vault marked locked after a failed password change.
markLocked(v) ==
    emitAuthEvent([setKey(zeroBytes(v), NoKey) EXCEPT !.unlocked = FALSE],
                  "auth:locked")

changePassword(v, oldPassword, newPassword, salt, f) ==
    IF ~v.ad.enabled THEN Fail(v, "auth not enabled")
    ELSE IF ~v.unlocked THEN Fail(v, "app must be unlocked")
    ELSE IF ~verifyPasswordHash(oldPassword, v.ad.hash)
    THEN Fail(v, "incorrect current password")
    ELSE IF PasswordLen(newPassword) < MinPasswordLen
    THEN Fail(v, "password too short")
    ELSE IF f.salt THEN Fail(v, "failed to generate salt")
    ELSE
    LET newKey == deriveKey(newPassword, salt)
        newHash == encodePasswordHash(newPassword, salt)
        oldHash == v.ad.hash
        v0 == CloseDatabase(v)
        e == encryptConfigFiles(v0.disk, newKey, f.enc)
        \* recovery decrypt, used by the two failure branches
        rd == decryptConfigFiles(e.dk, newKey, f.rdec)
        \* decrypt that restores the working state
        d == decryptConfigFiles(e.dk, newKey, f.dec)
    IN  IF e.err
        THEN IF rd.err
             THEN Fail(markLocked([v0 EXCEPT !.disk = rd.dk]),
                       "failed to re-encrypt files and recovery failed")
             ELSE [InitDatabase([v0 EXCEPT !.disk = rd.dk], f.init)
                     EXCEPT !.err = "failed to re-encrypt files"]
        ELSE IF f.save
        THEN IF rd.err
             THEN Fail(markLocked(saveAuthData(
                           [v0 EXCEPT !.disk = rd.dk, !.ad.hash = newHash],
                           f.save2)),
                       "failed to save auth data and recovery failed")
             ELSE [InitDatabase([v0 EXCEPT !.disk = rd.dk,
                                           !.ad.hash = oldHash], f.init)
                     EXCEPT !.err = "failed to save auth data"]
        ELSE LET v1 == saveAuthData([v0 EXCEPT !.ad.hash = newHash], FALSE)
             IN  IF d.err
                 THEN Fail(markLocked([v1 EXCEPT !.disk = d.dk]),
                           "failed to decrypt files after password change")
                 ELSE LET v2 == InitDatabase([v1 EXCEPT !.disk = d.dk],
                                             f.init)
                      IN  IF v2.err # "nil"
                          THEN Fail(markLocked(v2),
                                    "failed to re-initialize database")
                          ELSE setKey(zeroBytes(v2), newKey)

\* removePassword without the removal of auth.json.
removePassword_KeepAuthFile(v, password) ==
    IF ~v.ad.enabled THEN Fail(v, "auth not enabled")
    ELSE IF ~v.unlocked THEN Fail(v, "app must be unlocked")
    ELSE IF ~verifyPasswordHash(password, v.ad.hash)
    THEN Fail(v, "incorrect password")
    ELSE [setKey(zeroBytes(v), NoKey) EXCEPT
             !.disk = cleanupEncryptedFiles(v.disk),
             !.ad = NoAuthData, !.unlocked = TRUE]

removePassword(v, password) ==
    IF ~v.ad.enabled THEN Fail(v, "auth not enabled")
    ELSE IF ~v.unlocked THEN Fail(v, "app must be unlocked")
    ELSE IF ~verifyPasswordHash(password, v.ad.hash)
    THEN Fail(v, "incorrect password")
    ELSE [setKey(zeroBytes(v), NoKey) EXCEPT
             !.disk = cleanupEncryptedFiles(v.disk),
             !.af = NoAuthFile, !.ad = NoAuthData, !.unlocked = TRUE]

lock(v, f) ==
    IF ~v.unlocked THEN v
    ELSE emitAuthEvent(lockInternal(v, f.enc), "auth:locked")

serviceStartup(v, f) ==
    LET ad == IF v.af.exists THEN v.af.data ELSE NoAuthData
        v1 == [v EXCEPT !.ad = ad, !.disk = recoverFromCrash(v.disk, ad),
                        !.repaired = {file \in FileSet :
                            v.disk.plain[file] /\ v.disk.enc[file] # NoKey}]
    IN  IF ~ad.enabled
        THEN LET v2 == initializeApp(v1, f.init, f.cfg)
             IN  IF v2.err # "nil" THEN v2
                 ELSE emitAuthEvent([v2 EXCEPT !.unlocked = TRUE],
                                    "auth:unlocked")
        ELSE emitAuthEvent([v1 EXCEPT !.unlocked = FALSE], "auth:locked")

serviceShutdown(v, f) ==
    IF v.ad.enabled /\ v.unlocked THEN lockInternal(v, f.enc) ELSE v

\* ------------------------------------------------------------ vault actions
\* The state a call leaves behind, and what it returned.
Commit(v, op) ==
    /\ authData' = v.ad
    /\ authFile' = v.af
    /\ unlocked' = v.unlocked
    /\ encKey' = v.encKey
    /\ disk' = v.disk
    /\ dbOpen' = v.dbOpen
    /\ lastEvent' = v.ev
    /\ unzeroed' = v.unzeroed
    /\ repaired' = v.repaired
    /\ initialized' = v.initialized
    /\ ret' = [op |-> op, err |-> v.err, remaining |-> v.remaining]

\* wrongRun after a verification of password against the stored hash.
RunAfterVerify(v, password) ==
    IF verifyPasswordHash(password, v.ad.hash) THEN 0
    ELSE IF wrongRun + 1 >= maxAttemptsBeforeLock THEN 0
    ELSE wrongRun + 1

\* Unlock is called: it returns at once, or goes to sleep for its delay.
UnlockEnter(c, password, f) ==
    LET r == unlockEnter(Cur, password, f)
        verifies == /\ authData.enabled /\ ~unlocked
                    /\ ~(authData.lockoutUntil # Null
                         /\ now < authData.lockoutUntil)
    IN  /\ up
        /\ ucall[c].pc = "idle"
        /\ IF r.sleep > 0
           THEN /\ ucall' = [ucall EXCEPT ![c] =
                      [pc |-> "sleeping", pw |-> password,
                       attempt |-> authData.failedAttempts + 1,
                       delay |-> r.sleep]]
                /\ authData' = r.v.ad
                /\ UNCHANGED <<authFile, unlocked, encKey, disk, dbOpen,
                               lastEvent, ret, repaired, unzeroed,
                               initialized,
                               wrongRun>>
           ELSE /\ Commit(r.v, "Unlock")
                /\ wrongRun' = IF verifies
                               THEN RunAfterVerify(Cur, password)
                               ELSE wrongRun
                /\ UNCHANGED ucall
        /\ UNCHANGED <<now, up, saltCount, deltaVars, taskVars>>

\* The sleep of an Unlock call ends: it re-acquires the mutex and goes on.
UnlockWake(c, f) ==
    /\ up
    /\ ucall[c].pc = "sleeping"
    /\ ucall' = [ucall EXCEPT ![c] = IdleCall]
    /\ IF unlocked
       THEN /\ Commit(Cur, "Unlock")
            /\ UNCHANGED wrongRun
       ELSE /\ Commit(unlockVerify(Cur, ucall[c].pw, f), "Unlock")
            /\ wrongRun' = RunAfterVerify(Cur, ucall[c].pw)
    /\ UNCHANGED <<now, up, saltCount, deltaVars, taskVars>>

Lock(f) ==
    /\ up
    /\ Commit(lock(Cur, f), "Lock")
    /\ UNCHANGED <<now, up, ucall, saltCount, wrongRun, deltaVars, taskVars>>

SetupPassword(password, f) ==
    LET v == setupPassword(Cur, password, saltCount + 1, f)
    IN  /\ up
        /\ saltCount < MaxSalts
        /\ Commit(v, "SetupPassword")
        /\ saltCount' = IF v.ad.hash # authData.hash THEN saltCount + 1
                        ELSE saltCount
        /\ wrongRun' = IF v.err = "nil" THEN 0 ELSE wrongRun
        /\ UNCHANGED <<now, up, ucall, deltaVars, taskVars>>

ChangePassword(oldPassword, newPassword, f) ==
    LET v == changePassword(Cur, oldPassword, newPassword, saltCount + 1, f)
        drew == /\ authData.enabled /\ unlocked
                /\ verifyPasswordHash(oldPassword, authData.hash)
                /\ PasswordLen(newPassword) >= MinPasswordLen
                /\ ~f.salt
    IN  /\ up
        /\ saltCount < MaxSalts
        /\ Commit(v, "ChangePassword")
        /\ saltCount' = IF drew THEN saltCount + 1 ELSE saltCount
        /\ UNCHANGED <<now, up, ucall, wrongRun, deltaVars, taskVars>>

RemovePassword(password) ==
    LET v == removePassword(Cur, password)
    IN  /\ up
        /\ Commit(v, "RemovePassword")
        /\ wrongRun' = IF v.err = "nil" THEN 0 ELSE wrongRun
        /\ UNCHANGED <<now, up, ucall, saltCount, deltaVars, taskVars>>

\* The memory of a process that has ended.
ProcessGone(v) ==
    [v EXCEPT !.ad = NoAuthData, !.unlocked = FALSE, !.encKey = NoKey,
              !.repaired = {}, !.initialized = FALSE,
              !.dbOpen = FALSE]

ServiceShutdown(f) ==
    /\ up
    /\ up' = FALSE
    /\ Commit(ProcessGone(serviceShutdown(Cur, f)), "ServiceShutdown")
    /\ ucall' = [c \in Callers |-> IdleCall]
    /\ UNCHANGED <<now, saltCount, wrongRun, deltaVars, taskVars>>

\* The process dies inside the encrypt step of Lock.
LockCrash(file, pt) ==
    LET v == CloseDatabase(Cur)
        started == encryptConfigFiles(v.disk, v.encKey, file).dk
    IN  /\ up
        /\ unlocked /\ encKey \notin {NoKey, ZeroKey}
        /\ started.plain[file]
        /\ up' = FALSE
        /\ Commit(ProcessGone([v EXCEPT !.disk = encryptCrash(v.disk, v.encKey,
                                                              file, pt)]),
                  "crash")
        /\ ucall' = [c \in Callers |-> IdleCall]
        /\ UNCHANGED <<now, saltCount, wrongRun, deltaVars, taskVars>>

\* The process dies inside the decrypt step of Unlock(password).
UnlockCrash(password, file, pt) ==
    LET key == deriveKey(password, extractSalt(authData.hash))
        started == decryptConfigFiles(disk, key, file).dk
    IN  /\ up
        /\ authData.enabled /\ ~unlocked
        /\ ~(authData.lockoutUntil # Null /\ now < authData.lockoutUntil)
        /\ verifyPasswordHash(password, authData.hash)
        /\ started.enc[file] = key
        /\ up' = FALSE
        /\ Commit(ProcessGone([Cur EXCEPT !.disk = decryptCrash(disk, key,
                                                                file, pt)]),
                  "crash")
        /\ ucall' = [c \in Callers |-> IdleCall]
        /\ UNCHANGED <<now, saltCount, wrongRun, deltaVars, taskVars>>

\* A start-up that returns an error ends the application.
ServiceStartup(f) ==
    LET v == serviceStartup(Cur, f)
    IN  /\ ~up
        /\ up' = (v.err = "nil")
        /\ Commit(IF v.err = "nil" THEN v ELSE ProcessGone(v),
                  "ServiceStartup")
        /\ UNCHANGED <<now, ucall, saltCount, wrongRun, deltaVars, taskVars>>

TickVault ==
    /\ now < MaxVaultTicks * VaultTickStep
    /\ now' = now + VaultTickStep
    /\ UNCHANGED <<deltaVars, vaultVars, taskVars>>

\* ------------------------------------------- utils/rclone_progress.go
\* What rclone's accounting holds for a file: being checked, being
\* transferred, in the completed-transfer list as checked, completed or
\* failed, or checked and no longer listed ("unlisted").
Stages == {"new", "checking", "transferring", "checked", "completed",
           "failed", "unlisted"}

StageAfter(n, st) ==
    IF st = "new"
    THEN IF n \in UnchangedNames THEN {"checking"} ELSE {"transferring"}
    ELSE IF st = "checking" THEN {"checked", "unlisted"}
    ELSE IF st = "transferring" THEN {"completed", "failed"}
    ELSE {}

Checking == {n \in Names : stage[n] = "checking"}
Transferring == {n \in Names : stage[n] = "transferring"}
Transferred == {n \in Names : stage[n] \in {"checked", "completed", "failed"}}
\* stats.GetErrors() and stats.GetChecks()
GetErrors == Cardinality({n \in Names : stage[n] = "failed"})
GetChecks == Cardinality({n \in Names : stage[n] \in {"checked", "unlisted"}})

\* The last max entries of a sequence.
LastOf(q, max) ==
    IF Len(q) > max THEN SubSeq(q, Len(q) - max + 1, Len(q)) ELSE q

CountStatus(transfers, statuses) ==
    Cardinality({t \in transfers : t.status \in statuses})

\* The sample createStatusFromStats builds from the accounting snapshot;
\* the transfer list is kept as the set of its (name, status) entries.
createStatusFromStats(kind, logMessages, remoteOk) ==
    LET transfers ==
            IF remoteOk
            THEN {[name |-> n, status |-> "transferring"] : n \in Transferring}
                 \cup {[name |-> n, status |-> "checking"] : n \in Checking}
                 \cup {[name |-> n, status |-> stage[n]] : n \in Transferred}
            ELSE {}
    IN  [kind |-> kind, ts |-> now,
         transfers |-> transfers,
         errors |-> IF transfers # {}
                    THEN CountStatus(transfers, {"failed"})
                    ELSE GetErrors,
         checks |-> IF transfers # {}
                    THEN CountStatus(transfers, {"checked", "checking"})
                    ELSE GetChecks,
         logs |-> LastOf(logMessages, maxLogMessagesPerStatus)]

NoSample == [kind |-> "none", ts |-> 0, transfers |-> {}, errors |-> 0,
             checks |-> 0, logs |-> <<>>]

NewSampler == [pc |-> "wait", status |-> NoSample, prevChecking |-> {},
               completedChecks |-> {}]

\* The non-blocking send of safeSend and of the cleanup: the channel takes
\* the sample when it has room, else the sample is dropped.
TrySend(status) ==
    IF Len(outStatus) < ChanCap
    THEN /\ outStatus' = Append(outStatus, status)
         /\ sent' = Append(sent, status)
         /\ UNCHANGED dropped
    ELSE /\ dropped' = dropped + 1
         /\ UNCHANGED <<outStatus, sent>>

\* TrySend waiting for room in the channel.
safeSend_Blocking(status) ==
    /\ ~isClosed
    /\ Len(outStatus) < ChanCap
    /\ TrySend(status)

safeSend(status) ==
    IF isClosed
    THEN /\ dropped' = dropped + 1
         /\ UNCHANGED <<outStatus, sent>>
    ELSE TrySend(status)

\* A log line arrives at the installed sink: the callback tests isClosed.
LogEnter ==
    /\ sinks /\ logger = ""
    /\ logCount < MaxLogLines
    /\ logCount' = logCount + 1
    /\ logger' = IF isClosed THEN "" ELSE "line"
    /\ UNCHANGED <<now, isClosed, sinks, logAccum, stopCh, sampler, ticks,
                   cleanupPc, outStatus, chClosed, sent, dropped, stage, notProgressVars>>

\* appendLog of the callback in flight.
LogAppend ==
    /\ logger # ""
    /\ logAccum' = Append(logAccum, logger)
    /\ logger' = ""
    /\ UNCHANGED <<now, isClosed, sinks, logCount, stopCh, sampler, ticks,
                   cleanupPc, outStatus, chClosed, sent, dropped, stage, notProgressVars>>

\* The sampler takes a ticker fire, one interval after the last: it drains
\* the log lines, builds the sample and injects the accumulated completed
\* checks.
\* completedChecks is kept as a set: its cap of 100 entries is above the
\* number of Names.
SamplerTick(remoteOk) ==
    /\ sampler.pc = "wait"
    /\ ticks < MaxSamplerTicks
    /\ ticks' = ticks + 1
    /\ now' = now + 1
    /\ IF isClosed
       THEN UNCHANGED <<sampler, logAccum>>
       ELSE LET status == createStatusFromStats("periodic", logAccum,
                                                remoteOk)
                cc == sampler.completedChecks
                          \cup (sampler.prevChecking \ Checking)
                existingNames == {t.name : t \in status.transfers}
                injected == {[name |-> n, status |-> "checked"] :
                                n \in cc \ existingNames}
            IN  /\ logAccum' = <<>>
                /\ sampler' = [pc |-> "built",
                               status |-> [status EXCEPT !.transfers =
                                              @ \cup injected],
                               prevChecking |-> Checking,
                               completedChecks |-> cc]
    /\ UNCHANGED <<isClosed, sinks, logger, logCount, stopCh, cleanupPc,
                   outStatus, chClosed, sent, dropped, stage,
                   notProgressVars>>

\* safeSend(status) at the end of the tick.
SamplerSend ==
    /\ sampler.pc = "built"
    /\ safeSend(sampler.status)
    /\ sampler' = [sampler EXCEPT !.pc = "wait", !.status = NoSample]
    /\ UNCHANGED <<now, isClosed, sinks, logger, logCount, logAccum, stopCh,
                   ticks, cleanupPc, chClosed, stage,
                   notProgressVars>>

\* The sampler takes the stop signal and returns.
SamplerStop ==
    /\ sampler.pc = "wait"
    /\ stopCh
    /\ sampler' = [sampler EXCEPT !.pc = "done"]
    /\ UNCHANGED <<now, isClosed, sinks, logger, logCount, logAccum, stopCh,
                   ticks, cleanupPc, outStatus, chClosed, sent, dropped,
                   stage, notProgressVars>>

\* Step 5 of the cleanup: the final sample, when log lines remain.
finalSend(remaining, remoteOk) ==
    IF Len(remaining) > 0
    THEN TrySend(createStatusFromStats("final", remaining, remoteOk))
    ELSE UNCHANGED <<outStatus, sent, dropped>>

\* Steps 1 to 4 of the cleanup in the order signal, join, set the flag,
\* detach.
cleanupOrder_FlagLast == <<"signal", "join", "closed", "detach">>

\* The order of steps 1 to 4 of the cleanup function.
cleanupOrder == <<"closed", "detach", "signal", "join">>

\* The cleanup function returned by startProgress, one step at a time.
CleanupStep(remoteOk) ==
    /\ cleanupPc < 5
    /\ cleanupPc' = cleanupPc + 1
    /\ LET step == IF cleanupPc < 4 THEN cleanupOrder[cleanupPc + 1]
                   ELSE "final"
       IN  /\ step = "join" => sampler.pc = "done"
           /\ isClosed' = IF step = "closed" THEN TRUE ELSE isClosed
           /\ sinks' = IF step = "detach" THEN FALSE ELSE sinks
           /\ stopCh' = IF step = "signal" THEN TRUE ELSE stopCh
           /\ IF step = "final"
              THEN /\ finalSend(logAccum, remoteOk)
                   /\ logAccum' = <<>>
              ELSE UNCHANGED <<logAccum, outStatus, sent, dropped>>
    /\ UNCHANGED <<now, logger, logCount, sampler, ticks, chClosed, stage, notProgressVars>>

\* The caller receives a sample from its channel.
ReceiveStatus ==
    /\ Len(outStatus) > 0
    /\ outStatus' = Tail(outStatus)
    /\ UNCHANGED <<now, isClosed, sinks, logger, logCount, logAccum, stopCh,
                   sampler, ticks, cleanupPc, chClosed, sent, dropped, stage, notProgressVars>>

\* The transfer moves a file on.
StatsStep ==
    /\ cleanupPc = 0
    /\ \E n \in Names, st \in Stages :
          /\ st \in StageAfter(n, stage[n])
          /\ stage' = [stage EXCEPT ![n] = st]
    /\ UNCHANGED <<now, isClosed, sinks, logger, logCount, logAccum, stopCh,
                   sampler, ticks, cleanupPc, outStatus, chClosed, sent,
                   dropped, notProgressVars>>

\* The state startProgress returns in: flag clear, sinks installed, the
\* sampler started, the caller's channel holding room samples.
InitProgressWith(buffered) ==
    /\ isClosed = FALSE
    /\ sinks = TRUE
    /\ logger = ""
    /\ logCount = 0
    /\ logAccum = <<>>
    /\ stopCh = FALSE
    /\ sampler = NewSampler
    /\ ticks = 0
    /\ cleanupPc = 0
    /\ outStatus = buffered
    /\ chClosed = FALSE
    /\ sent = <<>>
    /\ dropped = 0
    /\ stage = [n \in Names |-> "new"]

\* ----------------------------------------------- rclone/crypt wrapping
tempCryptPrefix == "_tmp_crypt_"

\* A remote name: its prefix and what follows it.
RemoteName(prefix, id) == [prefix |-> prefix, id |-> id]
HasPrefix(name, prefix) == name.prefix = prefix
UserRemotes == {RemoteName("local", 0), RemoteName("gdrive", 0)}
\* uuid.New().String()[:8]
Uuids == 1..MaxUuids

\* "remote:path" as a pair.
Endpoint(name, path) == [remote |-> name, path |-> path]

Profiles ==
    [From : {Endpoint(RemoteName("local", 0), "a")},
     To : {Endpoint(RemoteName("gdrive", 0), "a")},
     EncryptSource : BOOLEAN, EncryptDest : BOOLEAN,
     EncryptPassword : {"", "secret"}, EncryptPassword2 : {"", "salt"}]

\* config.CreateRemote replaces the section of that name; by is the call
\* that creates it.
createTempCryptRemote(cfg, name, by, fail) ==
    IF fail THEN [cfg |-> cfg, err |-> TRUE]
    ELSE [cfg |-> {e \in cfg : e.name # name}
                     \cup {[name |-> name, by |-> by]},
          err |-> FALSE]

deleteTempCryptRemote(cfg, name) == {e \in cfg : e.name # name}

RECURSIVE deleteAll(_, _)
deleteAll(cfg, names) ==
    IF names = <<>> THEN cfg
    ELSE deleteAll(deleteTempCryptRemote(cfg, Head(names)), Tail(names))

CleanupOrphanedTempCryptRemotes(cfg) ==
    {e \in cfg : ~HasPrefix(e.name, tempCryptPrefix)}

\* ApplyCryptWrapping returning on a destination failure without having
\* run its cleanup.
applyCryptWrapping_KeepSource(cfg, profile, by, u1, u2, failSrc, failDst) ==
    IF ~profile.EncryptSource /\ ~profile.EncryptDest
    THEN [cfg |-> cfg, profile |-> profile, hasCleanup |-> TRUE,
          remotes |-> <<>>, created |-> {}, err |-> "nil"]
    ELSE IF profile.EncryptPassword = ""
    THEN [cfg |-> cfg, profile |-> profile, hasCleanup |-> TRUE,
          remotes |-> <<>>, created |-> {}, err |-> "password required"]
    ELSE
    LET srcName == RemoteName(tempCryptPrefix, u1)
        dstName == RemoteName(tempCryptPrefix, u2)
        c1 == IF profile.EncryptSource
              THEN createTempCryptRemote(cfg, srcName, by, failSrc)
              ELSE [cfg |-> cfg, err |-> FALSE]
        t1 == IF profile.EncryptSource THEN <<srcName>> ELSE <<>>
        p1 == IF profile.EncryptSource
              THEN [profile EXCEPT !.From = Endpoint(srcName, "")]
              ELSE profile
        c2 == IF profile.EncryptDest
              THEN createTempCryptRemote(c1.cfg, dstName, by, failDst)
              ELSE [cfg |-> c1.cfg, err |-> FALSE]
        t2 == IF profile.EncryptDest THEN Append(t1, dstName) ELSE t1
        p2 == IF profile.EncryptDest
              THEN [p1 EXCEPT !.To = Endpoint(dstName, "")]
              ELSE p1
    IN  IF c1.err
        THEN [cfg |-> c1.cfg, profile |-> profile, hasCleanup |-> FALSE,
              remotes |-> <<>>, created |-> {}, err |-> "source"]
        ELSE IF c2.err
        THEN [cfg |-> c2.cfg, profile |-> p1,
              hasCleanup |-> FALSE, remotes |-> <<>>,
              created |-> {t1[i] : i \in 1..Len(t1)}, err |-> "dest"]
        ELSE [cfg |-> c2.cfg,
              profile |-> [p2 EXCEPT !.EncryptPassword = "",
                                     !.EncryptPassword2 = ""],
              hasCleanup |-> TRUE, remotes |-> t2,
              created |-> {t2[i] : i \in 1..Len(t2)}, err |-> "nil"]

\* ApplyCryptWrapping: the config and the profile it leaves, whether it
\* returns a cleanup, the list that cleanup deletes, the names it created.
applyCryptWrapping(cfg, profile, by, u1, u2, failSrc, failDst) ==
    IF ~profile.EncryptSource /\ ~profile.EncryptDest
    THEN [cfg |-> cfg, profile |-> profile, hasCleanup |-> TRUE,
          remotes |-> <<>>, created |-> {}, err |-> "nil"]
    ELSE IF profile.EncryptPassword = ""
    THEN [cfg |-> cfg, profile |-> profile, hasCleanup |-> TRUE,
          remotes |-> <<>>, created |-> {}, err |-> "password required"]
    ELSE
    LET srcName == RemoteName(tempCryptPrefix, u1)
        dstName == RemoteName(tempCryptPrefix, u2)
        c1 == IF profile.EncryptSource
              THEN createTempCryptRemote(cfg, srcName, by, failSrc)
              ELSE [cfg |-> cfg, err |-> FALSE]
        t1 == IF profile.EncryptSource THEN <<srcName>> ELSE <<>>
        p1 == IF profile.EncryptSource
              THEN [profile EXCEPT !.From = Endpoint(srcName, "")]
              ELSE profile
        c2 == IF profile.EncryptDest
              THEN createTempCryptRemote(c1.cfg, dstName, by, failDst)
              ELSE [cfg |-> c1.cfg, err |-> FALSE]
        t2 == IF profile.EncryptDest THEN Append(t1, dstName) ELSE t1
        p2 == IF profile.EncryptDest
              THEN [p1 EXCEPT !.To = Endpoint(dstName, "")]
              ELSE p1
    IN  IF c1.err
        THEN [cfg |-> c1.cfg, profile |-> profile, hasCleanup |-> FALSE,
              remotes |-> <<>>, created |-> {}, err |-> "source"]
        ELSE IF c2.err
        THEN [cfg |-> deleteAll(c2.cfg, t1), profile |-> p1,
              hasCleanup |-> FALSE, remotes |-> <<>>,
              created |-> {t1[i] : i \in 1..Len(t1)}, err |-> "dest"]
        ELSE [cfg |-> c2.cfg,
              profile |-> [p2 EXCEPT !.EncryptPassword = "",
                                     !.EncryptPassword2 = ""],
              hasCleanup |-> TRUE, remotes |-> t2,
              created |-> {t2[i] : i \in 1..Len(t2)}, err |-> "nil"]

NoWrap == [pc |-> "idle", by |-> 0,
           given |-> CHOOSE pr \in Profiles :
                        ~pr.EncryptSource /\ ~pr.EncryptDest
                        /\ pr.EncryptPassword = "" /\ pr.EncryptPassword2 = "",
           profile |-> CHOOSE pr \in Profiles :
                        ~pr.EncryptSource /\ ~pr.EncryptDest
                        /\ pr.EncryptPassword = "" /\ pr.EncryptPassword2 = "",
           hasCleanup |-> FALSE, remotes |-> <<>>, created |-> {},
           err |-> "nil"]

\* A task calls ApplyCryptWrapping; without a cleanup to run the call is
\* over when it returns.
ApplyCryptWrapping(profile, u1, u2, failSrc, failDst) ==
    LET r == applyCryptWrapping(rcloneConfig, profile, wrapCount + 1,
                                u1, u2, failSrc, failDst)
    IN  /\ wrap.pc # "returned"
        /\ wrapCount < MaxWraps
        /\ wrapCount' = wrapCount + 1
        /\ rcloneConfig' = r.cfg
        /\ wrap' = [pc |-> IF r.hasCleanup THEN "returned" ELSE "done",
                    by |-> wrapCount + 1, given |-> profile,
                    profile |-> r.profile, hasCleanup |-> r.hasCleanup,
                    remotes |-> r.remotes, created |-> r.created,
                    err |-> r.err]
        /\ UNCHANGED notCryptVars

\* The task runs the cleanup it was returned.
RunCleanup ==
    /\ wrap.pc = "returned"
    /\ rcloneConfig' = deleteAll(rcloneConfig, wrap.remotes)
    /\ wrap' = [wrap EXCEPT !.pc = "done"]
    /\ UNCHANGED <<wrapCount, notCryptVars>>

\* The sweep of CompleteInitialization, run while no task is wrapped.
OrphanSweep ==
    /\ wrap.pc # "returned"
    /\ rcloneConfig' = CleanupOrphanedTempCryptRemotes(rcloneConfig)
    /\ UNCHANGED <<wrap, wrapCount, notCryptVars>>

\* The rclone config holds the user's remotes and what orphans a crashed
\* process left.
InitCryptWith(orphans) ==
    /\ rcloneConfig = {[name |-> n, by |-> 0] : n \in UserRemotes \cup orphans}
    /\ wrap = NoWrap
    /\ wrapCount = 0

\* ------------------------------------- delta/watcher.go, step by step
Objs == 1 .. MaxObjs
Chans == 1 .. MaxChans
StartCallers == {"direct", "service"}

\* The Watcher a caller outside the service holds; the service makes its
\* own with NewWatcher.
DirectObj == 1

NoObj == [made |-> FALSE, running |-> FALSE, pollCh |-> 0, cancelled |-> FALSE]
NewWatcherObj == [made |-> TRUE, running |-> FALSE, pollCh |-> 0,
                  cancelled |-> FALSE]
NoChan == [made |-> FALSE, closed |-> FALSE, len |-> 0]
IdleCaller == [pc |-> "idle", obj |-> 0, ch |-> 0]

\* A send on a closed channel panics and ends the process.
Alive == \A t \in StartCallers : callers[t].pc # "panic"

FreeChans == {c \in Chans : ~chans[c].made}
FreeObjs == {o \in Objs : ~objs[o].made}

\* Start from w.mu.Lock() to w.mu.Unlock(): returns when running, else
\* makes the poll channel (capacity 1), sets running, hands the channel to
\* ChangeNotify and keeps a copy of it for the send.
StartLocked(t, o, os) ==
    IF os[o].running
    THEN /\ callers' = [callers EXCEPT
                          ![t] = [pc |-> "returned", obj |-> o, ch |-> 0]]
         /\ objs' = os
         /\ chans' = chans
    ELSE /\ FreeChans # {}
         /\ LET c == CHOOSE x \in FreeChans : \A y \in FreeChans : x <= y
            IN  /\ objs' = [os EXCEPT
                              ![o] = [made |-> TRUE, running |-> TRUE,
                                      pollCh |-> c, cancelled |-> FALSE]]
                /\ chans' = [chans EXCEPT
                               ![c] = [made |-> TRUE, closed |-> FALSE,
                                       len |-> 0]]
                /\ callers' = [callers EXCEPT
                                 ![t] = [pc |-> "unlocked", obj |-> o,
                                         ch |-> c]]

\* Start called on the Watcher held outside the service.
StartCall ==
    /\ Alive
    /\ callers["direct"].pc = "idle"
    /\ StartLocked("direct", DirectObj, objs)
    /\ UNCHANGED <<dmu, wmap, notStartVars>>

\* pollCh <- pollInterval, after the mutex is released: panics on a closed
\* channel, waits while the buffer is full.
StartSend(t) ==
    /\ Alive
    /\ callers[t].pc = "unlocked"
    /\ LET c == callers[t].ch
       IN  IF chans[c].closed
           THEN /\ callers' = [callers EXCEPT ![t].pc = "panic"]
                /\ chans' = chans
           ELSE /\ chans[c].len < 1
                /\ chans' = [chans EXCEPT ![c].len = @ + 1]
                /\ callers' = [callers EXCEPT ![t].pc = "returned"]
    /\ UNCHANGED <<objs, dmu, wmap, notStartVars>>

\* Start has returned to the caller outside the service.
StartReturn ==
    /\ Alive
    /\ callers["direct"].pc = "returned"
    /\ callers' = [callers EXCEPT !["direct"] = IdleCaller]
    /\ UNCHANGED <<objs, chans, dmu, wmap, notStartVars>>

\* Watcher.Stop under w.mu on the objects os.
StopLocked(o, os) ==
    IF ~os[o].running THEN os
    ELSE [os EXCEPT ![o] = [@ EXCEPT !.running = FALSE, !.pollCh = 0,
                                     !.cancelled = TRUE]]

\* The channels after Stop on o: its poll channel is closed.
StopCloses(o, os, cs) ==
    IF os[o].running /\ os[o].pollCh # 0
    THEN [cs EXCEPT ![os[o].pollCh].closed = TRUE]
    ELSE cs

\* Stop called on the Watcher held outside the service.
StopCall ==
    /\ Alive
    /\ objs[DirectObj].running
    /\ objs' = StopLocked(DirectObj, objs)
    /\ chans' = StopCloses(DirectObj, objs, chans)
    /\ UNCHANGED <<callers, dmu, wmap, notStartVars>>

\* The ChangeNotify goroutine takes the interval from its poll channel.
PollReceive(c) ==
    /\ Alive
    /\ chans[c].len > 0
    /\ chans' = [chans EXCEPT ![c].len = @ - 1]
    /\ UNCHANGED <<objs, callers, dmu, wmap, notStartVars>>

\* EnsureWatcher takes d.mu, returns when the entry of the key is running,
\* else makes a Watcher and calls Start on it.
EnsureWatcherStart ==
    /\ Alive
    /\ dmu = "free"
    /\ callers["service"].pc = "idle"
    /\ ~(wmap # 0 /\ objs[wmap].running)
    /\ FreeObjs # {}
    /\ LET o == CHOOSE x \in FreeObjs : \A y \in FreeObjs : x <= y
       IN  StartLocked("service", o, [objs EXCEPT ![o] = NewWatcherObj])
    /\ dmu' = "service"
    /\ UNCHANGED <<wmap, notStartVars>>

\* EnsureWatcher after Start has returned: the Watcher is stored in the map
\* and d.mu released.
EnsureWatcherStore ==
    /\ Alive
    /\ dmu = "service"
    /\ callers["service"].pc = "returned"
    /\ wmap' = callers["service"].obj
    /\ callers' = [callers EXCEPT !["service"] = IdleCaller]
    /\ dmu' = "free"
    /\ UNCHANGED <<objs, chans, notStartVars>>

\* StopAll under d.mu: Stop on the entry of the map, then an empty map.
StopAllLocked ==
    /\ Alive
    /\ dmu = "free"
    /\ wmap # 0
    /\ objs' = StopLocked(wmap, objs)
    /\ chans' = StopCloses(wmap, objs, chans)
    /\ wmap' = 0
    /\ UNCHANGED <<callers, dmu, notStartVars>>

InitStart ==
    /\ objs = [o \in Objs |-> IF o = DirectObj THEN NewWatcherObj ELSE NoObj]
    /\ chans = [c \in Chans |-> NoChan]
    /\ callers = [t \in StartCallers |-> IdleCaller]
    /\ dmu = "free"
    /\ wmap = 0

\* ------------------------- delta/watcher.go, the buffer under concurrency
Drainers == 1 .. MaxDrainers
NotHolding == [pc |-> "idle", changes |-> <<>>]

\* notifyCallback on the watcher: the change is appended under w.mu.
BufCallback(path) ==
    /\ recorded < MaxBufEvents
    /\ bw' = [bw EXCEPT !.changes =
                 Append(@, [id |-> recorded + 1, path |-> path,
                            dir |-> path \in DirPaths])]
    /\ recorded' = recorded + 1
    /\ UNCHANGED <<held, consumed, hasRet, drainCount, notBufVars>>

\* HasChanges called by any goroutine.
BufHasChanges ==
    /\ hasRet' = HasChanges(bw)
    /\ UNCHANGED <<bw, held, recorded, consumed, drainCount, notBufVars>>

\* DrainChanges called by goroutine t, which keeps the returned slice.
BufDrain(t) ==
    /\ held[t].pc = "idle"
    /\ drainCount < MaxDrains
    /\ held' = [held EXCEPT ![t] = [pc |-> "holding", changes |-> bw.changes]]
    /\ bw' = DrainChanges(bw)
    /\ drainCount' = drainCount + 1
    /\ UNCHANGED <<recorded, consumed, hasRet, notBufVars>>

\* RestoreChanges called by goroutine t with the slice it drained.
BufRestore(t) ==
    /\ held[t].pc = "holding"
    /\ bw' = WatcherRestoreChanges(bw, held[t].changes)
    /\ held' = [held EXCEPT ![t] = NotHolding]
    /\ UNCHANGED <<recorded, consumed, hasRet, drainCount, notBufVars>>

\* Goroutine t has used the slice it drained and does not restore it.
BufConsume(t) ==
    /\ held[t].pc = "holding"
    /\ consumed' = consumed \cup {held[t].changes[i].id :
                                    i \in 1..Len(held[t].changes)}
    /\ held' = [held EXCEPT ![t] = NotHolding]
    /\ UNCHANGED <<bw, recorded, hasRet, drainCount, notBufVars>>

InitBuf ==
    /\ bw = [NewWatcher EXCEPT !.exists = TRUE, !.running = TRUE,
                               !.pollCh = "open"]
    /\ held = [t \in Drainers |-> NotHolding]
    /\ recorded = 0
    /\ consumed = {}
    /\ hasRet = FALSE
    /\ drainCount = 0

\* ------------------------------------ rclone/sync.go, the filter rules
\* Objects on the source remote, the glob rules a profile may hold, and the
\* paths ChangeNotify may report ("docs" is a directory).
FilePaths == {"a.log", "notes.md", "docs/r.md"}
ProfileRules == {"*.log", "*.md", "docs/**"}
ScopePaths == {"a.log", "notes.md", "docs", "dir[x"}
ScopeDirPaths == {"docs", "dir[x"}

\* The files a rule matches. A rule is a profile glob, "/" + path,
\* "/" + path + "/**", or "**".
Matches(rule, f) ==
    IF rule.kind = "all" THEN TRUE
    ELSE IF rule.kind = "path" THEN f = rule.arg
    ELSE IF rule.kind = "tree"
    THEN rule.arg = "docs" /\ f = "docs/r.md"
    ELSE IF rule.arg = "*.log" THEN f = "a.log"
    ELSE IF rule.arg = "*.md" THEN f \in {"notes.md", "docs/r.md"}
    ELSE f = "docs/r.md"

ProfileRule(p) == [kind |-> "glob", arg |-> p]

\* CopyFilterOpt(ctx): the include and exclude rules of the filter in ctx.
CopyFilterOpt(opt) == opt

\* filter.NewFilter: the rules in the order built, the include rules and
\* then the exclude rules.
NewFilter(opt) ==
    [i \in 1..Len(opt.IncludeRule) |->
        [include |-> TRUE, rule |-> opt.IncludeRule[i]]]
    \o [i \in 1..Len(opt.ExcludeRule) |->
        [include |-> FALSE, rule |-> opt.ExcludeRule[i]]]

\* The first rule that matches decides; a file no rule matches passes.
FilterPasses(flt, f) ==
    LET hits == {i \in 1..Len(flt) : Matches(flt[i].rule, f)}
    IN  \/ hits = {}
        \/ flt[CHOOSE i \in hits : \A j \in hits : i <= j].include

\* The include rules applyScopeFilter appends for changes[i..], skipping
\* the paths already seen.
RECURSIVE scopeIncludes(_, _, _)
scopeIncludes(changes, i, seen) ==
    IF i > Len(changes) THEN <<>>
    ELSE LET c == changes[i]
         IN  IF c.path \in seen THEN scopeIncludes(changes, i + 1, seen)
             ELSE (IF c.dir THEN <<[kind |-> "tree", arg |-> c.path]>>
                   ELSE <<>>)
                  \o <<[kind |-> "path", arg |-> c.path]>>
                  \o scopeIncludes(changes, i + 1, seen \cup {c.path})

\* The filter options applyScopeFilter hands to filter.NewFilter.
scopeFilterOpt(opt, changes) ==
    LET filterOpt == CopyFilterOpt(opt)
    IN  [IncludeRule |-> filterOpt.IncludeRule
                           \o scopeIncludes(changes, 1, {}),
         ExcludeRule |-> Append(filterOpt.ExcludeRule,
                                [kind |-> "all", arg |-> ""])]

NoScope == [built |-> FALSE, flt |-> <<>>]

\* ChangeNotify reports a path of the source.
ScopeCallback(path) ==
    /\ scope = NoScope
    /\ Len(fchanges) < MaxScopeChanges
    /\ fchanges' = Append(fchanges, [id |-> Len(fchanges) + 1, path |-> path,
                                     dir |-> path \in ScopeDirPaths])
    /\ UNCHANGED <<fopt, scope, notFilterVars>>

\* Sync builds the profile filter, drains the changes and calls
\* applyScopeFilter: the transfer runs under the scoped filter, or under
\* the profile filter when the scoped one cannot be built.
ScopeApply ==
    /\ scope = NoScope
    /\ Len(fchanges) > 0
    /\ scope' = IF applyScopeFilter(fchanges)
                THEN [built |-> TRUE,
                      flt |-> NewFilter(scopeFilterOpt(fopt, fchanges))]
                ELSE [built |-> FALSE, flt |-> NewFilter(fopt)]
    /\ UNCHANGED <<fopt, fchanges, notFilterVars>>

\* The transfer has ended; the watcher collects anew.
ScopeDone ==
    /\ scope # NoScope
    /\ scope' = NoScope
    /\ fchanges' = <<>>
    /\ UNCHANGED <<fopt, notFilterVars>>

InitFilterWith(opt) ==
    /\ fopt = opt
    /\ fchanges = <<>>
    /\ scope = NoScope

InitTask ==
    /\ InitProgressWith(<<>>) /\ InitCryptWith({}) /\ InitStart /\ InitBuf
    /\ InitFilterWith([IncludeRule |-> <<>>, ExcludeRule |-> <<>>])

\* ---------------------------------------------------------- specification
\* The table is either empty (first run) or holds what an earlier session
\* left: a baseline taken at time 0 and InitHighCount delta syncs since.
InitRow(k) ==
    [exists |-> TRUE, provider |-> getProviderType(k), isWatching |-> FALSE,
     lastFullSync |-> 0, deltaCount |-> InitHighCount]

\* A new DeltaService over the table rs.
InitDeltaWith(rs) ==
    /\ watchers = [k \in Keys |-> NoWatcher]
    /\ svcCtxCancelled = FALSE
    /\ rows = rs
    /\ task = [t \in Tasks |-> IdleTask]
    /\ syncCount = 0
    /\ fullSynced = {p \in Keys \X Keys : rs[p[1]].exists /\ rs[p[2]].exists}
    /\ eventCount = 0
    /\ live = [k \in Keys |-> 0]

\* The vault after the first start of a fresh installation: no auth.json,
\* the database open, rclone.conf written or not yet.
InitVaultWith(conf) ==
    /\ up = TRUE
    /\ authData = NoAuthData
    /\ authFile = NoAuthFile
    /\ unlocked = TRUE
    /\ encKey = NoKey
    /\ disk = [plain |-> [f \in FileSet |-> IF f = DbFile THEN TRUE ELSE conf],
               enc |-> [f \in FileSet |-> NoKey], sidecars |-> TRUE,
               torn |-> {}]
    /\ dbOpen = TRUE
    /\ lastEvent = "auth:unlocked"
    /\ ucall = [c \in Callers |-> IdleCall]
    /\ ret = NoRet
    /\ saltCount = 0
    /\ repaired = {}
    /\ unzeroed = {}
    /\ initialized = TRUE
    /\ wrongRun = 0

Init ==
    /\ now = 0
    /\ \E rs \in {[k \in Keys |-> NoRow], [k \in Keys |-> InitRow(k)]} :
          InitDeltaWith(rs)
    /\ InitVaultWith(TRUE)
    /\ InitTask

InitVault ==
    /\ now = 0
    /\ InitDeltaWith([k \in Keys |-> NoRow])
    /\ \E conf \in BOOLEAN : InitVaultWith(conf)
    /\ InitTask

NextDelta ==
    \/ \E k \in Keys, p \in Paths : notifyCallback(k, p)
    \/ \E k \in Keys : EnsureWatcherCall(k)
    \/ StopAll
    \/ \E t \in Tasks, from \in Keys, to \in Keys, kind \in {"push", "pull"},
          withDelta \in BOOLEAN, setupOk \in BOOLEAN :
          SyncBegin(t, from, to, kind, withDelta, setupOk)
    \/ \E t \in Tasks, ok \in BOOLEAN : SyncEnd(t, ok)
    \/ TickDelta

SpecDelta == Init /\ [][NextDelta]_vars

\* A session in which a full sync between "a" and "b" succeeded at time 0
\* and the watcher of "a" has recorded n changes since.
BulkChanges(n) ==
    [i \in 1..n |-> [id |-> 0 - i, path |-> "notes.md", dir |-> FALSE]]

BaselineRow(k) ==
    IF HasChangeNotify(k)
    THEN [exists |-> TRUE, provider |-> getProviderType(k),
          isWatching |-> TRUE, lastFullSync |-> 0, deltaCount |-> 0]
    ELSE NoRow

InitBulk ==
    /\ now = 0
    /\ \E n \in {BulkBase, BulkBase + 1} :
          watchers = [k \in Keys |->
              IF HasChangeNotify(k)
              THEN [Start(NewWatcher, k, FALSE) EXCEPT
                      !.changes = IF k = "a" THEN BulkChanges(n) ELSE <<>>]
              ELSE NoWatcher]
    /\ svcCtxCancelled = FALSE
    /\ rows = [k \in Keys |-> BaselineRow(k)]
    /\ task = [t \in Tasks |-> IdleTask]
    /\ syncCount = 0
    /\ fullSynced = {<<"a", "b">>}
    /\ eventCount = 0
    /\ live = [k \in Keys |-> IF HasChangeNotify(k) THEN 1 ELSE 0]
    /\ InitVaultWith(TRUE)
    /\ InitTask

NextBulk ==
    \/ \E p \in Paths : notifyCallback("a", p)
    \/ \E t \in Tasks, kind \in {"push", "pull"} :
          SyncBegin(t, "a", "b", kind, TRUE, TRUE)
    \/ \E t \in Tasks, ok \in BOOLEAN : SyncEnd(t, ok)

SpecBulk == InitBulk /\ [][NextBulk]_vars

\* The vault with every file operation succeeding.
NextVault ==
    \/ \E c \in Callers, p \in Passwords : UnlockEnter(c, p, NoFault)
    \/ \E c \in Callers : UnlockWake(c, NoFault)
    \/ Lock(NoFault)
    \/ \E p \in Passwords : SetupPassword(p, NoFault)
    \/ \E o \in Passwords, n \in Passwords : ChangePassword(o, n, NoFault)
    \/ \E p \in Passwords : RemovePassword(p)
    \/ ServiceShutdown(NoFault)
    \/ ServiceStartup(NoFault)
    \/ TickVault

SpecVault == InitVault /\ [][NextVault]_vars

\* The fault plans that differ in the steps a call can reach.
LockFaults == {[NoFault EXCEPT !.enc = e] : e \in FailAt}
SetupFaults == {[NoFault EXCEPT !.salt = s, !.save = w] :
                  s \in BOOLEAN, w \in BOOLEAN}
UnlockFaults == {[NoFault EXCEPT !.dec = d, !.init = i] :
                   d \in FailAt, i \in BOOLEAN}
                \cup {[NoFault EXCEPT !.cfg = TRUE]}
ChangeFaults ==
    {[NoFault EXCEPT !.salt = TRUE]}
    \cup {[NoFault EXCEPT !.enc = e, !.rdec = r, !.init = i] :
             e \in FileSet, r \in FailAt, i \in BOOLEAN}
    \cup {[NoFault EXCEPT !.save = TRUE, !.rdec = r, !.save2 = w, !.init = i] :
             r \in FailAt, w \in BOOLEAN, i \in BOOLEAN}
    \cup {[NoFault EXCEPT !.dec = d, !.init = i] :
             d \in FailAt, i \in BOOLEAN}
StartupFaults == {[NoFault EXCEPT !.init = i] : i \in BOOLEAN}
                 \cup {[NoFault EXCEPT !.cfg = TRUE]}

\* The vault with file operations that may fail, its calls made one at a
\* time.
NextVaultFaults ==
    \/ \E p \in Passwords, f \in UnlockFaults : UnlockEnter(1, p, f)
    \/ \E f \in UnlockFaults : UnlockWake(1, f)
    \/ \E f \in LockFaults : Lock(f)
    \/ \E p \in Passwords, f \in SetupFaults : SetupPassword(p, f)
    \/ \E o \in Passwords, n \in Passwords, f \in ChangeFaults :
          ChangePassword(o, n, f)
    \/ \E p \in Passwords : RemovePassword(p)
    \/ \E f \in LockFaults : ServiceShutdown(f)
    \/ \E f \in StartupFaults : ServiceStartup(f)

SpecVaultFaults == InitVault /\ [][NextVaultFaults]_vars

\* The vault with one password, every file operation succeeding, and a
\* process that may die inside the encrypt step of Lock or the decrypt step
\* of Unlock.
CrashPassword == "pass"

NextCrash ==
    \/ SetupPassword(CrashPassword, NoFault)
    \/ UnlockEnter(1, CrashPassword, NoFault)
    \/ Lock(NoFault)
    \/ ServiceShutdown(NoFault)
    \/ ServiceStartup(NoFault)
    \/ \E file \in FileSet, pt \in CrashPoints : LockCrash(file, pt)
    \/ \E file \in FileSet, pt \in {"write", "written"} :
          UnlockCrash(CrashPassword, file, pt)

SpecCrash == InitVault /\ [][NextCrash]_vars

\* The application about to start over whatever an earlier process left in
\* the config directory: each file in plaintext, as .enc, in both forms or
\* absent, sidecars or none, auth.json absent (or unreadable) or enabled.
RecoverKeys == {NoKey, deriveKey("pass", 1)}

InitRecover ==
    /\ now = 0
    /\ InitDeltaWith([k \in Keys |-> NoRow])
    /\ up = FALSE
    /\ authData = NoAuthData
    /\ authFile \in {NoAuthFile,
                      [exists |-> TRUE,
                       data |-> [enabled |-> TRUE,
                                 hash |-> encodePasswordHash("pass", 1),
                                 failedAttempts |-> 0,
                                 lockoutUntil |-> Null]]}
    /\ unlocked = FALSE
    /\ encKey = NoKey
    /\ disk \in [plain : [FileSet -> BOOLEAN], enc : [FileSet -> RecoverKeys],
                  sidecars : BOOLEAN, torn : {{}}]
    /\ dbOpen = FALSE
    /\ lastEvent = "none"
    /\ ucall = [c \in Callers |-> IdleCall]
    /\ ret = NoRet
    /\ saltCount = 1
    /\ repaired = {}
    /\ unzeroed = {}
    /\ initialized = FALSE
    /\ wrongRun = 0
    /\ InitTask

NextRecover ==
    \/ \E f \in StartupFaults : ServiceStartup(f)
    \/ ServiceShutdown(NoFault)

SpecRecover == InitRecover /\ [][NextRecover]_vars

\* One task from startProgress to the return of its cleanup; the caller's
\* channel starts empty or full of samples of an earlier task that nobody
\* reads.
OldSample == [NoSample EXCEPT !.kind = "earlier"]

InitProgress ==
    /\ now = 0
    /\ InitDeltaWith([k \in Keys |-> NoRow])
    /\ InitVaultWith(TRUE)
    /\ \E buffered \in {<<>>, [i \in 1..ChanCap |-> OldSample]} :
          InitProgressWith(buffered)
    /\ InitCryptWith({})
    /\ InitStart
    /\ InitBuf
    /\ InitFilterWith([IncludeRule |-> <<>>, ExcludeRule |-> <<>>])

NextProgress ==
    \/ LogEnter
    \/ LogAppend
    \/ \E ok \in BOOLEAN : SamplerTick(ok)
    \/ SamplerSend
    \/ SamplerStop
    \/ \E ok \in BOOLEAN : CleanupStep(ok)
    \/ ReceiveStatus
    \/ StatsStep

SpecProgress == InitProgress /\ [][NextProgress]_vars

\* The sampler goroutine and the caller running the cleanup are scheduled
\* whenever they can take a step; whether the channel is read, a line is
\* logged or the ticker fires is left open.
ProgressFairness ==
    /\ WF_vars(SamplerSend)
    /\ WF_vars(SamplerStop)
    /\ WF_vars(\E ok \in BOOLEAN : CleanupStep(ok))

SpecProgressLive == SpecProgress /\ ProgressFairness

\* Tasks that wrap their endpoints, one after the other.
InitCrypt ==
    /\ now = 0
    /\ InitDeltaWith([k \in Keys |-> NoRow])
    /\ InitVaultWith(TRUE)
    /\ InitProgressWith(<<>>)
    /\ InitStart
    /\ InitBuf
    /\ InitFilterWith([IncludeRule |-> <<>>, ExcludeRule |-> <<>>])
    /\ \E orphans \in SUBSET {RemoteName(tempCryptPrefix, u) : u \in Uuids} :
          InitCryptWith(orphans)

NextCrypt ==
    \/ \E profile \in Profiles, u1 \in Uuids, u2 \in Uuids,
          failSrc \in BOOLEAN, failDst \in BOOLEAN :
          ApplyCryptWrapping(profile, u1, u2, failSrc, failDst)
    \/ RunCleanup
    \/ OrphanSweep

SpecCrypt == InitCrypt /\ [][NextCrypt]_vars

\* Start and Stop interleaved: a Watcher used directly, and the service's
\* EnsureWatcher and StopAll on the Watchers of its map.
InitStartStop ==
    /\ now = 0
    /\ InitDeltaWith([k \in Keys |-> NoRow])
    /\ InitVaultWith(TRUE)
    /\ InitProgressWith(<<>>)
    /\ InitCryptWith({})
    /\ InitStart
    /\ InitBuf
    /\ InitFilterWith([IncludeRule |-> <<>>, ExcludeRule |-> <<>>])

NextStartStop ==
    \/ StartCall
    \/ \E t \in StartCallers : StartSend(t)
    \/ StartReturn
    \/ StopCall
    \/ \E c \in Chans : PollReceive(c)
    \/ EnsureWatcherStart
    \/ EnsureWatcherStore
    \/ StopAllLocked

SpecStartStop == InitStartStop /\ [][NextStartStop]_vars

\* One running watcher with callbacks, HasChanges, and goroutines that
\* drain and then restore or use what they drained.
InitBuffer ==
    /\ now = 0
    /\ InitDeltaWith([k \in Keys |-> NoRow])
    /\ InitVaultWith(TRUE)
    /\ InitProgressWith(<<>>)
    /\ InitCryptWith({})
    /\ InitStart
    /\ InitBuf
    /\ InitFilterWith([IncludeRule |-> <<>>, ExcludeRule |-> <<>>])

NextBuffer ==
    \/ \E path \in Paths : BufCallback(path)
    \/ BufHasChanges
    \/ \E t \in Drainers : BufDrain(t)
    \/ \E t \in Drainers : BufRestore(t)
    \/ \E t \in Drainers : BufConsume(t)

SpecBuffer == InitBuffer /\ [][NextBuffer]_vars

\* Scoped syncs of a profile with at most one include and one exclude rule.
ProfileRuleLists == {<<>>} \cup {<<ProfileRule(p)>> : p \in ProfileRules}

InitFilter ==
    /\ now = 0
    /\ InitDeltaWith([k \in Keys |-> NoRow])
    /\ InitVaultWith(TRUE)
    /\ InitProgressWith(<<>>)
    /\ InitCryptWith({})
    /\ InitStart
    /\ InitBuf
    /\ \E inc \in ProfileRuleLists, exc \in ProfileRuleLists :
          InitFilterWith([IncludeRule |-> inc, ExcludeRule |-> exc])

NextFilter ==
    \/ \E path \in ScopePaths : ScopeCallback(path)
    \/ ScopeApply
    \/ ScopeDone

SpecFilter == InitFilter /\ [][NextFilter]_vars

\* ================================================================= claims
\* A step in which Sync call t is made with a delta service and gets past
\* its set-up.
SyncRequest(t) ==
    /\ syncCount' = syncCount + 1
    /\ task'[t].seq = syncCount'
    /\ task'[t].deltaSvc
    /\ task'[t].result # "error"

\* A step in which Sync call t returns after its transfer.
SyncReturn(t) == task[t].pc = "transfer" /\ task'[t].pc = "done"

OverCap(k) ==
    /\ rows[k].exists
    /\ \/ rows[k].deltaCount >= MaxDeltaSyncsBeforeFullSync
       \/ /\ rows[k].lastFullSync # Null
          /\ now - rows[k].lastFullSync > MaxTimeBetweenFullSyncs

\* C1: when at the time of the request the delta count of the source or of
\* the destination is >= 50, or its last full sync is more than 24 h old,
\* Sync neither reports skip nor installs the changed-paths filter.
C1_ForcedFullSync ==
    [][\A t \in Tasks :
        (SyncRequest(t) /\ (OverCap(task'[t].src) \/ OverCap(task'[t].dst)))
        => (task'[t].result # "skipped" /\ ~task'[t].usedDelta)]_vars

Quiet(k) ==
    /\ watchers[k].exists /\ watchers[k].running
    /\ Len(watchers[k].changes) = 0
    /\ rows[k].exists
    /\ rows[k].deltaCount < MaxDeltaSyncsBeforeFullSync
    /\ ~(/\ rows[k].lastFullSync # Null
         /\ now - rows[k].lastFullSync > MaxTimeBetweenFullSyncs)

\* C2: Sync reports a delta-skip only if both the source and the destination
\* have a running watcher with an empty buffer, a delta count below 50 and a
\* last full sync at most 24 h old; if one of these fails on either side a
\* transfer is executed.
C2_SkipOnlyWhenBothQuiet ==
    [][\A t \in Tasks : SyncRequest(t) =>
        /\ task'[t].result = "skipped"
              => (Quiet(task'[t].src) /\ Quiet(task'[t].dst))
        /\ ~(Quiet(task'[t].src) /\ Quiet(task'[t].dst))
              => task'[t].pc = "transfer"]_vars

\* C2 witness: a skip was reported at the last count that allows it, and the
\* commit took both counters to the cap.
C2_Witness ==
    \E t \in Tasks :
        /\ task[t].result = "skipped"
        /\ rows[task[t].src].deltaCount = MaxDeltaSyncsBeforeFullSync
        /\ rows[task[t].dst].deltaCount = MaxDeltaSyncsBeforeFullSync

C4_RunningWatcherAlive ==
    \A k \in Keys :
        (watchers[k].exists /\ watchers[k].running)
        => ~watchers[k].ctxCancelled

\* The number of changes GetChanges drains from the watcher of key k.
DrainCount(k) ==
    IF watchers[k].exists /\ watchers[k].running
    THEN Len(watchers[k].changes) ELSE 0

\* C11 as stated: a transfer is scoped only when 1..4999 changes were
\* drained from the source watcher; with exactly 4999 it is scoped, with
\* 5000 or more it runs as a full sync.
C11_Original ==
    [][\A t \in Tasks :
        (SyncRequest(t) /\ task'[t].pc = "transfer")
        => LET n == DrainCount(task'[t].src)
           IN  /\ task'[t].usedDelta => n \in 1..(MaxChangesBeforeFallback - 1)
               /\ n = MaxChangesBeforeFallback - 1 => task'[t].usedDelta
               /\ n >= MaxChangesBeforeFallback => ~task'[t].usedDelta]_vars

\* C11 amended: a transfer is scoped exactly when 1..4999 changes were
\* drained from the source watcher and the scope filter built from them is
\* accepted; with 5000 or more, or with a filter that is rejected, it runs as
\* a full sync.  In both cases the buffer has been drained.
C11_ScopedBelowThreshold ==
    [][\A t \in Tasks :
        (SyncRequest(t) /\ task'[t].pc = "transfer")
        => LET n == DrainCount(task'[t].src)
               w == watchers[task'[t].src]
           IN  /\ task'[t].usedDelta
                     <=> /\ n \in 1..(MaxChangesBeforeFallback - 1)
                         /\ \A i \in 1..n : w.changes[i].path \notin BadGlobPaths
               /\ task'[t].usedDelta => task'[t].drained = w.changes
               /\ Len(watchers'[task'[t].src].changes) = 0]_vars

\* C11 witness: a transfer is running scoped to exactly 4999 drained changes.
C11_Witness ==
    \E t \in Tasks :
        /\ task[t].pc = "transfer" /\ task[t].usedDelta
        /\ Len(task[t].drained) = MaxChangesBeforeFallback - 1

\* C12: a successful full sync leaves both the source and the destination
\* row with delta_count = 0 and last_full_sync = now, and a running watcher
\* on each side that supports ChangeNotify; a successful scoped delta sync
\* adds exactly 1 to the delta_count of both rows and keeps their
\* last_full_sync; a failed sync changes no row.
C12_CommitBothSides ==
    [][\A t \in Tasks :
        (SyncReturn(t) /\ task[t].deltaSvc)
        => LET ends == {task[t].src, task[t].dst}
           IN  IF task'[t].result = "failed" THEN rows' = rows
               ELSE IF ~task[t].usedDelta
               THEN \A k \in ends :
                        /\ rows'[k].exists
                        /\ rows'[k].deltaCount = 0
                        /\ rows'[k].lastFullSync = now
                        /\ HasChangeNotify(k)
                              => (watchers'[k].exists /\ watchers'[k].running)
               ELSE \A k \in ends :
                        /\ rows'[k].exists
                        /\ rows'[k].deltaCount = rows[k].deltaCount + 1
                        /\ rows'[k].lastFullSync = rows[k].lastFullSync]_vars

\* C13: a Sync that takes the skip path starts no transfer, leaves every
\* watcher buffer as it was, adds exactly 1 to the delta_count of the source
\* row and of the destination row and changes no other row, offers exactly
\* one sample (completed, progress 100, delta_skipped) and returns success.
C13_SkipPath ==
    [][\A t \in Tasks :
        (SyncRequest(t) /\ task'[t].result = "skipped")
        => LET src == task'[t].src
               dst == task'[t].dst
           IN  /\ task'[t].pc = "done"
               /\ watchers' = watchers
               /\ rows[src].exists /\ rows[dst].exists
               /\ rows' = [rows EXCEPT ![src].deltaCount = @ + 1,
                                       ![dst].deltaCount = @ + 1]
               /\ Len(task'[t].offered) = 1
               /\ task'[t].offered[1].status = "completed"
               /\ task'[t].offered[1].progress = 100
               /\ task'[t].offered[1].deltaSkipped]_vars

\* C13 witness: the first sync after a full sync was skipped and took both
\* counters from 0 to 1.
C13_Witness ==
    \E t \in Tasks :
        /\ task[t].result = "skipped"
        /\ Len(task[t].offered) = 1
        /\ rows[task[t].src].deltaCount = 1
        /\ rows[task[t].dst].deltaCount = 1

\* C14: at any time every key has at most one ChangeNotify subscription
\* that was started and not stopped, and it is the one of the watcher the
\* service holds for the key; an EnsureWatcher call (made directly or by
\* CommitFullSync) for a key whose watcher is running starts nothing and
\* leaves that watcher and its buffer as they were.
C14_OneWatcherPerKey ==
    /\ [](\A k \in Keys :
            live[k] = IF watchers[k].exists /\ watchers[k].running
                      THEN 1 ELSE 0)
    /\ [][\A k \in Keys :
            ( /\ watchers[k].exists /\ watchers[k].running
              /\ \/ EnsureWatcherCall(k)
                 \/ \E t \in Tasks :
                       /\ SyncReturn(t) /\ task'[t].result = "ok"
                       /\ task[t].deltaSvc /\ ~task[t].usedDelta
                       /\ k \in {task[t].src, task[t].dst} )
            => (watchers'[k] = watchers[k] /\ live'[k] = live[k])]_vars

\* C14 witness: the second full sync of a session has committed, calling
\* EnsureWatcher for a source whose running watcher holds a change.
C14_Witness ==
    \E k \in Keys :
        /\ watchers[k].exists /\ watchers[k].running
        /\ Len(watchers[k].changes) > 0
        /\ live[k] = 1
        /\ \E t \in Tasks :
              /\ task[t].result = "ok" /\ ~task[t].usedDelta
              /\ task[t].deltaSvc /\ k = task[t].src
              /\ task[t].seq = 2

\* ------------------------------------------------------- watcher claims
\* C35: when a full sync between two remotes with ChangeNotify has
\* succeeded, a Sync of the same pair called next, before any further
\* callback, would be skipped: both watchers run with empty buffers, so
\* ShouldSkipSync holds for the source and for the destination.
C35_QuietAfterFullSync ==
    [][\A t \in Tasks :
         ( /\ SyncEnd(t, TRUE)
           /\ task[t].deltaSvc /\ ~task[t].usedDelta
           /\ {task[t].src, task[t].dst} \subseteq NotifyKeys )
         => /\ \A k \in {task[t].src, task[t].dst} :
                  watchers'[k].running /\ ~HasChanges(watchers'[k])
            /\ (ShouldSkipSync(task[t].src) /\ ShouldSkipSync(task[t].dst))'
      ]_vars

\* C34: a Sync call is skipped or scoped only when a full sync from its
\* source to its destination has succeeded before.
C34_SkipOnlyAfterFullSyncOfPair ==
    [][\A t \in Tasks :
         ( /\ task'[t].seq = syncCount + 1
           /\ syncCount' = syncCount + 1
           /\ task'[t].result = "skipped" \/ task'[t].usedDelta )
         => <<task'[t].src, task'[t].dst>> \in fullSynced ]_vars

\* C33: when a Sync call that drained changes from the source watcher
\* returns after a failed transfer, every change it drained is in the
\* buffer of the source watcher again, whether the transfer was scoped or
\* ran as a full sync.
C33_DrainedRestoredOnFailure ==
    [][\A t \in Tasks :
         (SyncEnd(t, FALSE) /\ task[t].deltaSvc)
         => \A i \in 1..Len(task[t].srcChanges) :
               \E j \in 1..Len(watchers'[task[t].src].changes) :
                   watchers'[task[t].src].changes[j] = task[t].srcChanges[i]
      ]_vars

\* C31: for a remote without ChangeNotify no watcher runs and no
\* subscription is live, its row, once a full sync has written it, has
\* provider "none" and is_watching false, ShouldSkipSync is false for it,
\* no Sync with it as source or destination is skipped, and no Sync with
\* it as source is scoped.
C31_NoNotifyNoWatcher ==
    /\ \A k \in Keys \ NotifyKeys :
          /\ ~watchers[k].running /\ live[k] = 0
          /\ ~ShouldSkipSync(k)
          /\ rows[k].exists
               => rows[k].provider = "none" /\ ~rows[k].isWatching
    /\ \A t \in Tasks :
          /\ (task[t].seq > 0 /\ {task[t].src, task[t].dst} \ NotifyKeys # {})
               => task[t].result # "skipped"
          /\ (task[t].seq > 0 /\ task[t].src \notin NotifyKeys)
               => ~task[t].usedDelta /\ task[t].drained = <<>>

\* C31 witness: a Sync from the remote without ChangeNotify has succeeded
\* as a full sync and written its row.
C31_Witness ==
    \E t \in Tasks :
        /\ task[t].src \notin NotifyKeys /\ task[t].deltaSvc
        /\ task[t].result = "ok"
        /\ rows[task[t].src].exists
        /\ rows[task[t].src].deltaCount = 0
        /\ rows[task[t].src].provider = "none"
        /\ rows[task[t].dst].isWatching

\* C26: StopAll leaves no watcher running, every subscription ended (each
\* poll channel closed once: the count of live subscriptions of a key is 0,
\* never negative), is_watching false in the row of every key it had a
\* watcher for, and the service context cancelled; Stop on a watcher that
\* is not running, and StopAll after StopAll, change nothing.
C26_StopIdempotent ==
    /\ []( /\ stopAll(stopAll(Svc)) = stopAll(Svc)
           /\ \A k \in Keys :
                 /\ Stop(Stop(watchers[k])) = Stop(watchers[k])
                 /\ ~watchers[k].running => Stop(watchers[k]) = watchers[k]
                 /\ watchers[k].running => watchers[k].pollCh = "open"
                 /\ Stop(watchers[k]).pollCh = "nil"
                 /\ live[k] \in {0, 1} )
    /\ [][StopAll
          => /\ svcCtxCancelled'
             /\ \A k \in Keys :
                   /\ ~watchers'[k].running
                   /\ live'[k] = 0
                   /\ watchers[k].exists => ~rows'[k].isWatching
                   /\ (watchers[k].exists /\ watchers[k].running)
                        => live[k] = 1 ]_vars

\* C26 witness: StopAll has stopped the watcher a full sync had started
\* and recorded as watching.
C26_Witness ==
    /\ svcCtxCancelled
    /\ \A k \in Keys : ~watchers[k].exists /\ live[k] = 0
    /\ \E k \in NotifyKeys :
          /\ rows[k].exists /\ rows[k].deltaCount = 0
          /\ rows[k].lastFullSync # Null
          /\ ~rows[k].isWatching

\* C27: no Start call sends the poll interval on a channel Stop has closed
\* (the send would panic), and a Start call that has released the mutex
\* finds room in its poll channel.
C27_SendNeverOnClosed ==
    \A t \in StartCallers :
        /\ callers[t].pc # "panic"
        /\ callers[t].pc = "unlocked"
             => /\ ~chans[callers[t].ch].closed
                /\ chans[callers[t].ch].len < 1

\* The number of places change id is in: the buffer, the slices drained
\* and still held, and the changes used.
PlacesOf(id) ==
    Cardinality({i \in 1..Len(bw.changes) : bw.changes[i].id = id})
    + Cardinality({p \in {<<t, i>> : t \in Drainers, i \in 1..MaxBufEvents} :
                     /\ p[2] <= Len(held[p[1]].changes)
                     /\ held[p[1]].changes[p[2]].id = id})
    + (IF id \in consumed THEN 1 ELSE 0)

\* C28: every recorded change is in exactly one place (the buffer, or the
\* result of one drain that was not restored), and every drain returns its
\* changes in the order the callbacks recorded them.
C28_DrainedOnceInOrder ==
    /\ \A id \in 1..recorded : PlacesOf(id) = 1
    /\ \A t \in Drainers :
          \A i, j \in 1..Len(held[t].changes) :
              i < j => held[t].changes[i].id < held[t].changes[j].id

\* -------------------------------------------------------- filter claims
\* C36: a file that passes the filter of a scoped sync also passes the
\* filter built from the profile's own include and exclude rules.
C36_ScopeKeepsExcludes ==
    scope.built
    => \A f \in FilePaths :
          FilterPasses(scope.flt, f) => FilterPasses(NewFilter(fopt), f)

\* --------------------------------------------------------- progress claims
\* C21: once the cleanup function of startProgress has returned, exactly one
\* final sample has been sent on the progress channel, and it was sent after
\* the sampler had returned.
C21_FinalSampleEmitted ==
    cleanupPc = 5
    => /\ Cardinality({i \in 1..Len(sent) : sent[i].kind = "final"}) = 1
       /\ sampler.pc = "done"

\* C22: in every sample the progress channel accepted, periodic or final,
\* Errors is the number of entries of Transfers with status failed and
\* Checks the number of entries with status checked or checking.
C22_CountsMatchTransfers ==
    \A i \in 1..Len(sent) :
        /\ sent[i].errors = CountStatus(sent[i].transfers, {"failed"})
        /\ sent[i].checks
             = CountStatus(sent[i].transfers, {"checked", "checking"})

\* C23: the pipeline never closes the progress channel and never waits for
\* room in it: a sample built by a tick can always be handed to safeSend and
\* the final step of the cleanup can always be taken; with the channel full
\* the tick's sample and the final sample are dropped and the channel is
\* left as it was; and a cleanup that has started returns.
C23_NeverBlocksNeverCloses ==
    /\ [](~chClosed)
    /\ [](sampler.pc = "built" => ENABLED SamplerSend)
    /\ [](cleanupPc = 4 => ENABLED CleanupStep(TRUE))
    /\ [][ /\ (SamplerSend /\ Len(outStatus) = ChanCap)
             => /\ dropped' = dropped + 1
                /\ UNCHANGED <<outStatus, sent>>
                /\ sampler'.pc = "wait"
           /\ ( /\ \E ok \in BOOLEAN : CleanupStep(ok)
                /\ cleanupPc = 4 /\ Len(outStatus) = ChanCap )
             => /\ UNCHANGED <<outStatus, sent>>
                /\ cleanupPc' = 5 ]_vars
    /\ (cleanupPc = 1 ~> cleanupPc = 5)

\* C23 witness: the channel was full of an earlier task's samples and never
\* read; every tick's sample and the final sample were dropped and the
\* cleanup has returned.
C23_Witness ==
    /\ cleanupPc = 5
    /\ Len(outStatus) = ChanCap /\ outStatus[1].kind = "earlier"
    /\ sent = <<>>
    /\ ticks >= 1 /\ dropped = ticks + 1
    /\ logCount = 1 /\ logAccum = <<>>

\* C24: the cleanup sets the closed flag, then detaches the sinks, then
\* signals the sampler, then joins it, then emits the final sample; hence
\* the final sample is the last sample the channel accepts, nothing is sent
\* once the cleanup has returned, and the samples of the task are sent in
\* non-decreasing timestamp order.
C24_TearDownOrder ==
    /\ []( /\ isClosed <=> cleanupPc >= 1
           /\ sinks <=> cleanupPc < 2
           /\ stopCh <=> cleanupPc >= 3
           /\ cleanupPc >= 4 => sampler.pc = "done"
           /\ \A i \in 1..Len(sent) :
                 /\ sent[i].kind = "final"
                      => (i = Len(sent) /\ cleanupPc = 5)
                 /\ \A j \in i..Len(sent) : sent[i].ts <= sent[j].ts )
    /\ [][cleanupPc = 5 => sent' = sent]_vars

\* C24 witness: the channel accepted a periodic sample and, after the
\* cleanup, a later final sample carrying the residual log line.
C24_Witness ==
    /\ cleanupPc = 5
    /\ Len(sent) >= 2
    /\ sent[1].kind = "periodic"
    /\ sent[Len(sent)].kind = "final"
    /\ sent[Len(sent)].logs = <<"line">>
    /\ sent[1].ts < sent[Len(sent)].ts

\* C40: every accepted log line reaches the select of a send: the sample of
\* a tick that carries drained lines is never stopped by the closed flag in
\* safeSend, and no callback appends a line once the cleanup has made its
\* final drain.
C40_AcceptedLinesAreOffered ==
    [][/\ (SamplerSend /\ Len(sampler.status.logs) > 0) => ~isClosed
       /\ LogAppend => cleanupPc < 5]_vars

\* ------------------------------------------------------------ crypt claims
\* C25: once an ApplyCryptWrapping call has returned and the cleanup it
\* returned (if any) has run, the rclone config holds no remote that call
\* created, whichever way it returned: nothing to encrypt, no password,
\* failure on the source remote, failure on the destination remote, or
\* success. After a success, until the cleanup runs, each endpoint asked to
\* be encrypted is a _tmp_crypt_ remote of the config created by the call,
\* the other endpoint is as given, and both passwords of the profile are
\* empty.
C25_NoTempRemoteLeft ==
    /\ wrap.pc = "done" => \A e \in rcloneConfig : e.by # wrap.by
    /\ (wrap.pc = "returned" /\ wrap.err = "nil"
        /\ (wrap.given.EncryptSource \/ wrap.given.EncryptDest))
       => /\ wrap.profile.EncryptPassword = ""
          /\ wrap.profile.EncryptPassword2 = ""
          /\ IF wrap.given.EncryptSource
             THEN /\ HasPrefix(wrap.profile.From.remote, tempCryptPrefix)
                  /\ [name |-> wrap.profile.From.remote, by |-> wrap.by]
                        \in rcloneConfig
             ELSE wrap.profile.From = wrap.given.From
          /\ IF wrap.given.EncryptDest
             THEN /\ HasPrefix(wrap.profile.To.remote, tempCryptPrefix)
                  /\ [name |-> wrap.profile.To.remote, by |-> wrap.by]
                        \in rcloneConfig
             ELSE wrap.profile.To = wrap.given.To

\* C25 witness: a call that was to encrypt both sides created the source
\* remote, failed on the destination remote and has returned.
C25_Witness ==
    /\ wrap.pc = "done" /\ wrap.err = "dest"
    /\ wrap.given.EncryptSource /\ wrap.given.EncryptDest
    /\ wrap.created # {}
    /\ ~wrap.hasCleanup

\* ------------------------------------------------------------ vault claims
\* C30: once start-up or any AuthService call has returned, no sensitive
\* file is on disk both in plaintext and as .enc.
C30_OneFormOnly ==
    ret.op # "none"
    => \A file \in FileSet : ~(disk.plain[file] /\ disk.enc[file] # NoKey)

\* The vault is locked: auth is enabled and the service is not unlocked
\* (a process that has ended holds nothing unlocked).
VaultLocked == authFile.exists /\ authFile.data.enabled /\ ~unlocked

\* A locked vault has no sensitive file in plaintext; an unlocked vault has
\* no .enc file and its database connection open.
FilesMatchLock ==
    /\ VaultLocked => \A file \in FileSet : ~disk.plain[file]
    /\ unlocked => /\ \A file \in FileSet : disk.enc[file] = NoKey
                   /\ dbOpen

\* C29: when a Lock call has returned, and after the call that follows it
\* (so after an Unlock that returns an error), a locked vault has no
\* sensitive file in plaintext and an unlocked vault has no .enc file and
\* its database open.
C29_LockedEncryptedOnly ==
    /\ [](ret.op = "Lock" => FilesMatchLock)
    /\ [][ret.op = "Lock" => FilesMatchLock']_vars

\* A complete copy of file is on disk: its plaintext written in full, or an
\* .enc that decrypts under the password of auth.json.
CompleteCopy(file) ==
    \/ disk.plain[file] /\ file \notin disk.torn
    \/ /\ authFile.exists
       /\ \E p \in Passwords :
             /\ verifyPasswordHash(p, authFile.data.hash)
             /\ disk.enc[file]
                   = deriveKey(p, extractSalt(authFile.data.hash))

\* C37: a crash inside the encrypt step of Lock or the decrypt step of
\* Unlock, and the crash recovery of the start-up that follows it, leave a
\* complete copy of every file that had one.
C37_CrashKeepsCompleteCopy ==
    [][\A file \in FileSet :
          (/\ \/ ret'.op = "crash"
              \/ ret.op = "crash" /\ ret'.op = "ServiceStartup"
           /\ CompleteCopy(file))
          => CompleteCopy(file)']_vars

\* C38: a Lock call that emits auth:locked leaves the service not unlocked
\* and no sensitive file in plaintext, and a Lock call made while auth is
\* not enabled or no key is held emits no auth:locked.
C38_LockedEventMeansLocked ==
    [][(Lock(NoFault) /\ lastEvent # "auth:locked"
           /\ lastEvent' = "auth:locked")
       => /\ ~unlocked'
          /\ \A file \in FileSet : ~disk'.plain[file]
          /\ authData.enabled /\ encKey # NoKey]_vars

\* C39: a SetupPassword call that fails at the salt generation or at the
\* write of auth.json leaves auth not enabled, no key held, and the service
\* state and auth.json as they were.
C39_FailedSetupChangesNothing ==
    [][\A p \in Passwords, f \in SetupFaults :
          (/\ SetupPassword(p, f)
           /\ ret'.err \in {"failed to generate salt",
                            "failed to save auth data"})
          => /\ ~authData'.enabled
             /\ authData' = authData
             /\ encKey' = encKey
             /\ unlocked' = unlocked
             /\ authFile' = authFile]_vars

\* C20: a start-up that finds auth enabled emits auth:locked and leaves the
\* vault locked, the database closed and the rclone config not loaded; from
\* then on the database is opened or the config loaded only by an Unlock
\* call that returns success. A start-up that finds auth disabled opens the
\* database, loads the config, leaves the vault unlocked and emits
\* auth:unlocked.
C20_DeferredInitialization ==
    [][ /\ \A f \in StartupFaults :
             (ServiceStartup(f) /\ up')
             => IF authFile.exists /\ authFile.data.enabled
                THEN /\ lastEvent' = "auth:locked"
                     /\ ~unlocked' /\ ~dbOpen' /\ ~initialized'
                ELSE /\ lastEvent' = "auth:unlocked"
                     /\ unlocked' /\ dbOpen' /\ initialized'
        /\ ( /\ up /\ authData.enabled
             /\ ~unlocked /\ ~dbOpen /\ ~initialized
             /\ dbOpen' \/ initialized' )
             => /\ ret'.op = "Unlock" /\ ret'.err = "nil"
                /\ unlocked' ]_vars

\* C19: RemovePassword returns success exactly when the vault is enabled
\* and unlocked and the password verifies against the stored hash; after a
\* success auth is disabled, the vault is unlocked, auth.json and both .enc
\* files are absent, the plaintext files, the sidecars and the database
\* connection are as before, and the service holds no key and dropped none
\* without overwriting it; after an error nothing of the vault has changed.
C19_RemovePassword ==
    [][\A p \in Passwords :
         RemovePassword(p)
         => LET may == /\ authData.enabled /\ unlocked
                       /\ verifyPasswordHash(p, authData.hash)
            IN  /\ ret'.err = "nil" <=> may
                /\ may => /\ ~authData'.enabled
                          /\ unlocked'
                          /\ ~authFile'.exists
                          /\ \A file \in FileSet : disk'.enc[file] = NoKey
                          /\ disk'.plain = disk.plain
                          /\ disk'.sidecars = disk.sidecars
                          /\ dbOpen' = dbOpen
                          /\ encKey' = NoKey
                          /\ unzeroed' = unzeroed
                /\ ~may => UNCHANGED <<authData, authFile, unlocked, encKey,
                                       disk, dbOpen, lastEvent, unzeroed>>
      ]_vars

\* C19 witness: RemovePassword has succeeded on a vault set up in this
\* session; the files are in plaintext and auth.json is gone.
C19_Witness ==
    /\ ret = [op |-> "RemovePassword", err |-> "nil", remaining |-> 0]
    /\ up /\ ~authData.enabled /\ unlocked
    /\ saltCount >= 1
    /\ ~authFile.exists
    /\ encKey = NoKey /\ unzeroed = {}
    /\ disk.plain[DbFile] /\ dbOpen
    /\ \A file \in FileSet : disk.enc[file] = NoKey

C17_MinimumLength ==
    [][ /\ \A p \in Passwords :
             SetupPassword(p, NoFault)
             => /\ PasswordChars(p) < MinPasswordLen
                     => /\ ret'.err # "nil"
                        /\ UNCHANGED <<authFile, encKey, disk, dbOpen>>
                /\ (PasswordChars(p) = MinPasswordLen /\ ~authData.enabled)
                     => ret'.err = "nil"
        /\ \A o \in Passwords, n \in Passwords :
             ChangePassword(o, n, NoFault)
             => /\ PasswordChars(n) < MinPasswordLen
                     => /\ ret'.err # "nil"
                        /\ UNCHANGED <<authFile, encKey, disk, dbOpen>>
                /\ ( /\ PasswordChars(n) = MinPasswordLen
                     /\ authData.enabled /\ unlocked
                     /\ verifyPasswordHash(o, authData.hash) )
                     => ret'.err = "nil" ]_vars

\* The files as a start-up leaves them differ from what recoverFromCrash left
\* only by the database InitDatabase opens when auth is disabled.
OpenedAtStartup(file) ==
    /\ file = DbFile /\ ret'.err # "database"
    /\ ~(authFile.exists /\ authFile.data.enabled)

\* C16: at start-up, for each file on its own: found in both forms with auth
\* enabled, its plaintext (and for the database the sidecars) is removed and
\* the .enc kept; found in both forms with auth disabled, the .enc is removed
\* and the plaintext kept; found in one form only, nothing of it is removed;
\* recovery leaves no file in both forms.
C16_CrashRecovery ==
    [][\A f \in StartupFaults : ServiceStartup(f) =>
        LET en == authFile.exists /\ authFile.data.enabled
        IN  \A file \in FileSet :
              LET both == disk.plain[file] /\ disk.enc[file] # NoKey
              IN  /\ (both /\ en)
                       => /\ ~disk'.plain[file]
                          /\ disk'.enc[file] = disk.enc[file]
                          /\ file = DbFile => ~disk'.sidecars
                  /\ (both /\ ~en)
                       => /\ disk'.plain[file]
                          /\ disk'.enc[file] = NoKey
                  /\ ~both
                       => /\ disk'.enc[file] = disk.enc[file]
                          /\ disk.plain[file] => disk'.plain[file]
                          /\ (file = DbFile /\ disk.sidecars)
                                => disk'.sidecars
                  /\ (disk'.plain[file] /\ disk'.enc[file] # NoKey)
                       => (OpenedAtStartup(file) /\ ~disk.plain[file])]_vars

\* C16 witness: a start-up with auth enabled found the database in both
\* forms, with sidecars, and rclone.conf in plaintext only.
C16_Witness ==
    /\ ret.op = "ServiceStartup" /\ up
    /\ authData.enabled
    /\ repaired = {DbFile}
    /\ ~disk.plain[DbFile] /\ disk.enc[DbFile] # NoKey /\ ~disk.sidecars
    /\ disk.plain["rclone.conf"] /\ disk.enc["rclone.conf"] = NoKey

\* C15: whenever the vault is locked AuthService holds no key, and no key it
\* held was ever dropped (by Lock, shutdown, RemovePassword, the replacement
\* in ChangePassword, or a ChangePassword failure path that locks) without
\* its bytes having been overwritten with zeros.
C15_KeyOnlyWhileUnlocked ==
    /\ ~unlocked => encKey = NoKey
    /\ encKey # ZeroKey
    /\ unzeroed = {}

\* C15 witness: a ChangePassword call failed on a path that locks, after the
\* key of the first password had been in memory.
C15_Witness ==
    /\ ret.op = "ChangePassword" /\ ret.err # "nil"
    /\ up /\ ~unlocked
    /\ lastEvent = "auth:locked"
    /\ encKey = NoKey
    /\ authData.enabled

LockoutActive ==
    authData.lockoutUntil # Null /\ now < authData.lockoutUntil

\* The step is an Unlock call of caller c returning (at once, or after its
\* sleep).
UnlockReturns(c) ==
    \/ \E p \in Passwords : UnlockEnter(c, p, NoFault) /\ ucall'[c].pc = "idle"
    \/ UnlockWake(c, NoFault)

\* The step is an Unlock call on a locked vault reaching the verification of
\* password p.
UnlockVerifies(p) ==
    \E c \in Callers :
        \/ /\ UnlockEnter(c, p, NoFault)
           /\ authData.enabled /\ ~unlocked /\ ~LockoutActive
           /\ ucall'[c].pc = "idle"
        \/ /\ UnlockWake(c, NoFault)
           /\ ~unlocked
           /\ ucall[c].pw = p

ChangeSucceeded(n) ==
    /\ ret'.err = "nil"
    /\ unlocked'
    /\ \A file \in FileSet :
          /\ disk'.enc[file] = NoKey
          /\ disk.plain[file] => disk'.plain[file]
    /\ verifyPasswordHash(n, authData'.hash)
    /\ encKey' = deriveKey(n, extractSalt(authData'.hash))

ChangeLockedRecoverable(n) ==
    /\ ~unlocked'
    /\ verifyPasswordHash(n, authData'.hash)
    /\ \A file \in FileSet :
          disk'.enc[file] \in {NoKey, deriveKey(n, extractSalt(authData'.hash))}

\* C5: a ChangePassword call that got past the verification of the old
\* password and the salt generation, whichever later step fails, ends either
\* in full success (unlocked, files plaintext, hash and key of the new
\* password) or with the vault locked, the hash verifying the new password
\* and every .enc file decryptable with the key derived from it.
C5_AllOrLocked ==
    [][\A o \in Passwords, n \in Passwords, f \in ChangeFaults :
          ( /\ ChangePassword(o, n, f)
            /\ authData.enabled /\ unlocked
            /\ verifyPasswordHash(o, authData.hash)
            /\ PasswordLen(n) >= MinPasswordLen
            /\ ~f.salt )
          => (ChangeSucceeded(n) \/ ChangeLockedRecoverable(n))]_vars

C7_DelaySchedule ==
    [][\A c \in Callers, p \in Passwords :
          ( /\ UnlockEnter(c, p, NoFault)
            /\ authData.enabled /\ ~unlocked /\ ~LockoutActive )
          => LET n == authData.failedAttempts + 1
             IN  /\ n \in 1..3 => ucall'[c].pc = "idle"
                 /\ n \in 4..9 => /\ ucall'[c].pc = "sleeping"
                                  /\ ucall'[c].delay = Pow2(n - 4)
                 /\ ucall'[c].delay <= 32]_vars

\* C8: the verification of the 10th consecutive wrong password writes
\* lockout_until = now + 300 s and failed_attempts = 0 to auth.json, and no
\* step sets a lockout in auth.json except that one.
C8_TenthWrongLocksOut ==
    [][ /\ \A p \in Passwords :
             ( /\ UnlockVerifies(p)
               /\ ~verifyPasswordHash(p, authData.hash)
               /\ wrongRun = maxAttemptsBeforeLock - 1 )
             => /\ authFile'.data.lockoutUntil = now + lockoutDuration
                /\ authFile'.data.failedAttempts = 0
        /\ authFile'.data.lockoutUntil
               \notin {Null, authFile.data.lockoutUntil}
           => /\ wrongRun = maxAttemptsBeforeLock - 1
              /\ \E p \in Passwords :
                    /\ UnlockVerifies(p)
                    /\ ~verifyPasswordHash(p, authData.hash) ]_vars

C8_Witness ==
    /\ ret = [op |-> "Unlock", err |-> "incorrect password", remaining |-> 0]
    /\ authFile.data.lockoutUntil = now + lockoutDuration
    /\ authFile.data.failedAttempts = 0
    /\ ~unlocked

\* C32: no password is verified while a lockout is active: an Unlock call
\* that resumes from its rate-limit sleep during a lockout returns the
\* locked error and leaves the counters as they are, and no run of wrong
\* passwords without a lockout is longer than the lockout threshold.
C32_NoVerifyDuringLockout ==
    /\ [](wrongRun < maxAttemptsBeforeLock)
    /\ [][ /\ \A p \in Passwords : UnlockVerifies(p) => ~LockoutActive
           /\ \A c \in Callers :
                (UnlockWake(c, NoFault) /\ LockoutActive /\ ~unlocked)
                => /\ ret'.err = "account locked"
                   /\ authData' = authData ]_vars

\* C9: an Unlock call on the locked vault that returns while a lockout is
\* active returns the locked error with the remaining seconds and changes
\* neither the counters, the files nor the locked state; a correct password
\* verified after the lockout has passed unlocks and leaves failed_attempts
\* = 0 and lockout_until empty.
C9_LockoutRejects ==
    [][ /\ \A c \in Callers :
             (UnlockReturns(c) /\ LockoutActive /\ ~unlocked)
             => /\ ret'.err = "account locked"
                /\ ret'.remaining = authData.lockoutUntil - now
                /\ UNCHANGED <<authData, authFile, disk, unlocked>>
        /\ \A p \in Passwords :
             ( /\ UnlockVerifies(p)
               /\ verifyPasswordHash(p, authData.hash)
               /\ authFile.data.lockoutUntil # Null
               /\ ~LockoutActive )
             => /\ unlocked'
                /\ authFile'.data.failedAttempts = 0
                /\ authFile'.data.lockoutUntil = Null ]_vars

\* C10: outside a lockout, the verification of a wrong password on the
\* locked vault increases failed_attempts in auth.json by exactly 1, or
\* starts the lockout when it was 9, and leaves the vault locked and the
\* files as they were; the verification of the correct password leaves
\* failed_attempts = 0 and lockout_until empty.
C10_CounterOnVerify ==
    [][\A p \in Passwords :
          (UnlockVerifies(p) /\ ~LockoutActive)
          => IF verifyPasswordHash(p, authData.hash)
             THEN /\ authFile'.data.failedAttempts = 0
                  /\ authFile'.data.lockoutUntil = Null
                  /\ authData'.failedAttempts = 0
                  /\ authData'.lockoutUntil = Null
             ELSE /\ \/ authFile'.data.failedAttempts
                          = authFile.data.failedAttempts + 1
                     \/ /\ authFile.data.failedAttempts
                             = maxAttemptsBeforeLock - 1
                        /\ authFile'.data.failedAttempts = 0
                        /\ authFile'.data.lockoutUntil
                             = now + lockoutDuration
                  /\ ~unlocked'
                  /\ disk' = disk ]_vars

C10_Witness ==
    /\ ret = [op |-> "Unlock", err |-> "incorrect password", remaining |-> 0]
    /\ authFile.data.failedAttempts = 5
    /\ authFile.data.lockoutUntil = Null
    /\ ~unlocked
    /\ now > 0

====
